---- MODULE Spec2Model ----
(***************************************************************************)
(* A model of the mutual-credit token channel of the offset node:          *)
(*   - the mutual-credit unit (components/funder/src/mutual_credit),       *)
(*   - the processing of incoming operations                               *)
(*     (src/funder/token_channel/incoming.rs),                             *)
(*   - the directional token channel                                       *)
(*     (src/networker/messenger/token_channel/directional.rs),             *)
(*   - the friends of a funder and the cancelling of their requests        *)
(*     (components/funder/src/friend.rs, handler/canceler.rs).             *)
(* Hashes and signatures are modelled by their preimages (collision free). *)
(***************************************************************************)
EXTENDS Integers, Sequences, FiniteSets, TLC

VARIABLES
    tc,         \* peer -> MutualCreditState (the unit owned by the channel)
    direction,  \* peer -> MoveTokenDirection
    new_token,  \* peer -> ChannelToken
    ev,         \* the last handled event and its outcome
    steps,      \* number of handled events
    funder,     \* FunderState: friends, open transactions and payments
    outgoing_control,  \* what the last handler reported to the application
    compact,    \* the connection of a user to the compact server
    liveness    \* Liveness: the friends that are online

vars == <<tc, direction, new_token, ev, steps, funder, outgoing_control, compact,
          liveness>>

----------------------------------------------------------------------------
(* Bounds of the model *)

\* Number of events in one behaviour.
MaxSteps == 4

\* Integers are scaled: u128 is modelled with DebtBits + 1 bits and i128 with
\* DebtBits + 1 bits two's complement.
DebtBits == 4

Pow2(n) == 2 ^ n

U128_MAX == Pow2(DebtBits + 1) - 1

I128_MAX == Pow2(DebtBits) - 1

I128_MIN == 0 - Pow2(DebtBits)

\* (1 << 127) - 1, scaled.
MAX_FUNDER_DEBT == Pow2(DebtBits) - 1

----------------------------------------------------------------------------
(* Identities, locks, signatures *)

\* Public keys: the two friends of the channel and a third node further
\* along the route.
PkA == 1

PkB == 2

PkC == 3

Peers == {PkA, PkB}

Remote(p) == IF p = PkA THEN PkB ELSE PkA

\* sha_512_256 of a public key; the order of two hashes is some fixed strict
\* total order of the keys.
PkHash(pk) == <<"sha", pk>>

HashLess(h1, h2) == h1[2] < h2[2]

\* PlainLock::hash
HashLock(plain) == <<"lock", plain>>

\* identity.sign(buffer), and verify_signature(buffer, public_key, signature)
Sign(pk, buf) == [signer |-> pk, buf |-> buf]

verify_signature(buf, pk, sig) == sig.signer = pk /\ sig.buf = buf

----------------------------------------------------------------------------
(* Checked integer arithmetic: an Option, None on overflow *)

Some(v) == [some |-> TRUE, v |-> v]

None == [some |-> FALSE, v |-> 0]

checked_add(a, b) == IF a + b > U128_MAX THEN None ELSE Some(a + b)

checked_sub(a, b) == IF a - b < 0 THEN None ELSE Some(a - b)

checked_add_unsigned(i, u) == IF i + u > I128_MAX THEN None ELSE Some(i + u)

checked_sub_unsigned(i, u) == IF i - u < I128_MIN THEN None ELSE Some(i - u)

----------------------------------------------------------------------------
(* The mutual-credit unit *)

StageRequest == [kind |-> "Request", dest_hashed_lock |-> HashLock(0)]

StageResponse(dest_hashed_lock) ==
    [kind |-> "Response", dest_hashed_lock |-> dest_hashed_lock]

McBalanceNew(balance) ==
    [balance |-> balance,
     local_max_debt |-> 0,
     remote_max_debt |-> 0,
     local_pending_debt |-> 0,
     remote_pending_debt |-> 0]

EmptyMap == [x \in {} |-> 0]

McPendingTransactionsNew == [local |-> EmptyMap, remote |-> EmptyMap]

McRequestsStatusNew == [local |-> "Closed", remote |-> "Closed"]

\* Liveness::new: no friend is online.
LivenessNew == [friends |-> {}]

\* The state of a funder without friends, payments or open transactions.
FunderStateNew ==
    [friends |-> EmptyMap, open_transactions |-> EmptyMap, payments |-> EmptyMap,
     panicked |-> FALSE]

\* The compact server at the start of its loop over a connection that was
\* granted app_permissions: nothing was sent to the node or to the user.
CompactServerNew(app_permissions) ==
    [open |-> TRUE, app_permissions |-> app_permissions,
     app_sender |-> <<>>, user_sender |-> <<>>]

MutualCreditNew(local_public_key, remote_public_key, balance) ==
    [idents |-> [local_public_key |-> local_public_key,
                 remote_public_key |-> remote_public_key],
     balance |-> McBalanceNew(balance),
     pending_transactions |-> McPendingTransactionsNew,
     requests_status |-> McRequestsStatusNew]

balance_for_reset(s) ==
    checked_add_unsigned(s.balance.balance, s.balance.remote_pending_debt)

MapInsert(m, k, v) == [x \in DOMAIN m \cup {k} |-> IF x = k THEN v ELSE m[x]]

MapRemove(m, k) == [x \in DOMAIN m \ {k} |-> m[x]]

\* McMutation: a record [type, ...] with the payload of the variant.
Mut(type, arg) == [type |-> type, arg |-> arg]

set_local_pending_transaction_stage(s, request_id, stage) ==
    [s EXCEPT !.pending_transactions.local[request_id].stage = stage]

set_remote_pending_transaction_stage(s, request_id, stage) ==
    [s EXCEPT !.pending_transactions.remote[request_id].stage = stage]

set_local_requests_status(s, requests_status) ==
    [s EXCEPT !.requests_status.local = requests_status]

set_remote_requests_status(s, requests_status) ==
    [s EXCEPT !.requests_status.remote = requests_status]

set_remote_max_debt(s, proposed_max_debt) ==
    [s EXCEPT !.balance.remote_max_debt = proposed_max_debt]

set_local_max_debt(s, proposed_max_debt) ==
    [s EXCEPT !.balance.local_max_debt = proposed_max_debt]

set_balance(s, balance) ==
    [s EXCEPT !.balance.balance = balance]

\* A unit that forgets the pending remote transaction it is given.
insert_remote_pending_nothing(s, pending) == s

insert_remote_pending_transaction(s, pending) ==
    [s EXCEPT !.pending_transactions.remote =
        MapInsert(@, pending.request_id, pending)]

remove_remote_pending_transaction(s, request_id) ==
    [s EXCEPT !.pending_transactions.remote = MapRemove(@, request_id)]

\* A unit that forgets to record its pending local transactions.
insert_local_pending_nothing(s, pending) == s

insert_local_pending_transaction(s, pending) ==
    [s EXCEPT !.pending_transactions.local =
        MapInsert(@, pending.request_id, pending)]

\* A unit that never drops a pending local transaction.
remove_local_pending_nothing(s, request_id) == s

remove_local_pending_transaction(s, request_id) ==
    [s EXCEPT !.pending_transactions.local = MapRemove(@, request_id)]

set_remote_pending_debt(s, remote_pending_debt) ==
    [s EXCEPT !.balance.remote_pending_debt = remote_pending_debt]

set_local_pending_debt(s, local_pending_debt) ==
    [s EXCEPT !.balance.local_pending_debt = local_pending_debt]

mutate(s, m) ==
    CASE m.type = "SetLocalRequestsStatus" -> set_local_requests_status(s, m.arg)
      [] m.type = "SetRemoteRequestsStatus" -> set_remote_requests_status(s, m.arg)
      [] m.type = "SetLocalMaxDebt" -> set_local_max_debt(s, m.arg)
      [] m.type = "SetRemoteMaxDebt" -> set_remote_max_debt(s, m.arg)
      [] m.type = "SetBalance" -> set_balance(s, m.arg)
      [] m.type = "InsertLocalPendingTransaction" ->
            insert_local_pending_transaction(s, m.arg)
      [] m.type = "RemoveLocalPendingTransaction" ->
            remove_local_pending_transaction(s, m.arg)
      [] m.type = "SetLocalPendingTransactionStage" ->
            set_local_pending_transaction_stage(s, m.arg[1], m.arg[2])
      [] m.type = "InsertRemotePendingTransaction" ->
            insert_remote_pending_transaction(s, m.arg)
      [] m.type = "RemoveRemotePendingTransaction" ->
            remove_remote_pending_transaction(s, m.arg)
      [] m.type = "SetRemotePendingTransactionStage" ->
            set_remote_pending_transaction_stage(s, m.arg[1], m.arg[2])
      [] m.type = "SetLocalPendingDebt" -> set_local_pending_debt(s, m.arg)
      [] m.type = "SetRemotePendingDebt" -> set_remote_pending_debt(s, m.arg)

RECURSIVE MutateAll(_, _)
MutateAll(s, muts) ==
    IF muts = <<>> THEN s ELSE MutateAll(mutate(s, Head(muts)), Tail(muts))

----------------------------------------------------------------------------
(* Routes *)

\* Check if no element repeats twice in the slice.
no_duplicates(array) ==
    \A i, j \in 1..Len(array) : array[i] = array[j] => i = j

is_cycle_free(route) == no_duplicates(route)

MAX_ROUTE_LEN == 32

\* A check that accepts the cycle A -- A.
is_route_valid_accepting_short_cycle(route) ==
    IF Len(route) < 2 THEN FALSE
    ELSE IF Len(route) > MAX_ROUTE_LEN THEN FALSE
    ELSE IF route[Len(route)] = route[1] THEN no_duplicates(Tail(route))
    ELSE no_duplicates(route)

is_route_valid(route) ==
    IF Len(route) < 2 THEN FALSE
    ELSE IF Len(route) > MAX_ROUTE_LEN THEN FALSE
    ELSE IF route[Len(route)] = route[1]
         THEN IF Len(route) > 2 THEN no_duplicates(Tail(route)) ELSE FALSE
         ELSE no_duplicates(route)

\* The (0-based) index of pk1 where pk1 is immediately followed by pk2.
find_pk_pair(route, pk1, pk2) ==
    LET hits == {i \in 1..(Len(route) - 1) :
                    route[i] = pk1 /\ route[i + 1] = pk2}
    IN  IF hits = {} THEN None
        ELSE Some((CHOOSE i \in hits : \A j \in hits : i <= j) - 1)

----------------------------------------------------------------------------
(* Operations (FriendTcOp) *)

EnableRequests == [type |-> "EnableRequests"]

DisableRequests == [type |-> "DisableRequests"]

SetRemoteMaxDebt(x) == [type |-> "SetRemoteMaxDebt", proposed_max_debt |-> x]

RequestSendFunds(request_id, src_plain_lock, route, dest_payment, left_fees, freeze_links) ==
    [type |-> "RequestSendFunds",
     request_id |-> request_id,
     src_hashed_lock |-> HashLock(src_plain_lock),
     route |-> route,
     dest_payment |-> dest_payment,
     total_dest_payment |-> dest_payment,
     invoice_id |-> 0,
     left_fees |-> left_fees,
     freeze_links |-> freeze_links]

ResponseSendFunds(request_id, dest_hashed_lock, rand_nonce, signature) ==
    [type |-> "ResponseSendFunds",
     request_id |-> request_id,
     dest_hashed_lock |-> dest_hashed_lock,
     rand_nonce |-> rand_nonce,
     signature |-> signature]

CancelSendFunds(request_id) ==
    [type |-> "CancelSendFunds", request_id |-> request_id]

CollectSendFunds(request_id, src_plain_lock, dest_plain_lock) ==
    [type |-> "CollectSendFunds",
     request_id |-> request_id,
     src_plain_lock |-> src_plain_lock,
     dest_plain_lock |-> dest_plain_lock]

FailureSendFunds(request_id, reporting_public_key, rand_nonce, signature) ==
    [type |-> "FailureSendFunds",
     request_id |-> request_id,
     reporting_public_key |-> reporting_public_key,
     rand_nonce |-> rand_nonce,
     signature |-> signature]

create_pending_transaction(request_send_funds) ==
    [request_id |-> request_send_funds.request_id,
     route |-> request_send_funds.route,
     dest_payment |-> request_send_funds.dest_payment,
     total_dest_payment |-> request_send_funds.total_dest_payment,
     invoice_id |-> request_send_funds.invoice_id,
     left_fees |-> request_send_funds.left_fees,
     src_hashed_lock |-> request_send_funds.src_hashed_lock,
     stage |-> StageRequest]

create_response_signature_buffer(response_send_funds, pending_transaction) ==
    <<"FUND_RESPONSE",
      <<"sha", pending_transaction.request_id, response_send_funds.rand_nonce>>,
      pending_transaction.src_hashed_lock,
      response_send_funds.dest_hashed_lock,
      pending_transaction.dest_payment,
      pending_transaction.total_dest_payment,
      pending_transaction.invoice_id>>

\* The credits a pending transaction reserves, and the credits paid for it.
credits_to_freeze(pending) == checked_add(pending.dest_payment, pending.left_fees)

credits_on_success(pending) == checked_add(pending.dest_payment, pending.left_fees)

----------------------------------------------------------------------------
(* Processing of incoming operations.                                      *)
(* A handler works on the (cloned) state in place: it returns the error,   *)
(* the state as the handler left it, and the mutations it reports.         *)

Out(err, s, muts) == [err |-> err, tc |-> s, tc_mutations |-> muts]

Ok == "Ok"

\* A failed unwrap()/expect(): the thread panics.
Panic == "Panic"

\* A handler that opens the requests and reports no mutation.
process_enable_requests_unlogged(s) ==
    Out(Ok, mutate(s, Mut("SetRemoteRequestsStatus", "Open")), <<>>)

process_enable_requests(s) ==
    LET tc_mutation == Mut("SetRemoteRequestsStatus", "Open")
    IN  Out(Ok, mutate(s, tc_mutation), <<tc_mutation>>)

process_disable_requests(s) ==
    IF s.requests_status.remote = "Open"
    THEN LET tc_mutation == Mut("SetRemoteRequestsStatus", "Closed")
         IN  Out(Ok, mutate(s, tc_mutation), <<tc_mutation>>)
    ELSE Out("RequestsAlreadyDisabled", s, <<>>)

\* A handler that refuses the largest debt as well.
process_set_remote_max_debt_strict(s, proposed_max_debt) ==
    IF proposed_max_debt >= MAX_FUNDER_DEBT
    THEN Out("RemoteMaxDebtTooLarge", s, <<>>)
    ELSE LET tc_mutation == Mut("SetLocalMaxDebt", proposed_max_debt)
         IN  Out(Ok, mutate(s, tc_mutation), <<tc_mutation>>)

process_set_remote_max_debt(s, proposed_max_debt) ==
    IF proposed_max_debt > MAX_FUNDER_DEBT
    THEN Out("RemoteMaxDebtTooLarge", s, <<>>)
    ELSE LET tc_mutation == Mut("SetLocalMaxDebt", proposed_max_debt)
         IN  Out(Ok, mutate(s, tc_mutation), <<tc_mutation>>)

\* The request handler that refuses requests when the local requests status
\* is Closed.
process_request_when_open(s, request_send_funds) ==
    LET remote_index == find_pk_pair(request_send_funds.route,
                                     s.idents.remote_public_key,
                                     s.idents.local_public_key)
        pending == create_pending_transaction(request_send_funds)
        own_freeze_credits == credits_to_freeze(pending)
        new_remote_pending_debt ==
            checked_add(s.balance.remote_pending_debt, own_freeze_credits.v)
        m1 == Mut("InsertRemotePendingTransaction", pending)
        m2 == Mut("SetRemotePendingDebt", new_remote_pending_debt.v)
    IN  IF ~is_cycle_free(request_send_funds.route)
            THEN Out("DuplicateNodesInRoute", s, <<>>)
        ELSE IF ~remote_index.some
            THEN Out("PkPairNotInRoute", s, <<>>)
        ELSE IF remote_index.v + 1 # request_send_funds.freeze_links
            THEN Out("InvalidFreezeLinks", s, <<>>)
        ELSE IF s.requests_status.local # "Open"
            THEN Out("LocalRequestsClosed", s, <<>>)
        ELSE IF ~own_freeze_credits.some
            THEN Out("CreditCalculatorFailure", s, <<>>)
        ELSE IF ~new_remote_pending_debt.some
            THEN Out("CreditsCalcOverflow", s, <<>>)
        ELSE IF new_remote_pending_debt.v > s.balance.remote_max_debt
            THEN Out("InsufficientTrust", s, <<>>)
        ELSE IF request_send_funds.request_id
                    \in DOMAIN s.pending_transactions.remote
            THEN Out("RequestAlreadyExists", s, <<>>)
        ELSE Out(Ok, mutate(mutate(s, m1), m2), <<m1, m2>>)

process_request_send_funds(s, request_send_funds) ==
    LET remote_index == find_pk_pair(request_send_funds.route,
                                     s.idents.remote_public_key,
                                     s.idents.local_public_key)
        pending == create_pending_transaction(request_send_funds)
        own_freeze_credits == credits_to_freeze(pending)
        new_remote_pending_debt ==
            checked_add(s.balance.remote_pending_debt, own_freeze_credits.v)
        m1 == Mut("InsertRemotePendingTransaction", pending)
        m2 == Mut("SetRemotePendingDebt", new_remote_pending_debt.v)
    IN  IF ~is_cycle_free(request_send_funds.route)
            THEN Out("DuplicateNodesInRoute", s, <<>>)
        ELSE IF ~remote_index.some
            THEN Out("PkPairNotInRoute", s, <<>>)
        ELSE IF remote_index.v + 1 # request_send_funds.freeze_links
            THEN Out("InvalidFreezeLinks", s, <<>>)
        ELSE IF s.requests_status.local = "Open"
            THEN Out("LocalRequestsClosed", s, <<>>)
        ELSE IF ~own_freeze_credits.some
            THEN Out("CreditCalculatorFailure", s, <<>>)
        ELSE IF ~new_remote_pending_debt.some
            THEN Out("CreditsCalcOverflow", s, <<>>)
        ELSE IF new_remote_pending_debt.v > s.balance.remote_max_debt
            THEN Out("InsufficientTrust", s, <<>>)
        ELSE IF request_send_funds.request_id
                    \in DOMAIN s.pending_transactions.remote
            THEN Out("RequestAlreadyExists", s, <<>>)
        ELSE Out(Ok, mutate(mutate(s, m1), m2), <<m1, m2>>)

process_response_send_funds(s, response_send_funds) ==
    IF response_send_funds.request_id \notin DOMAIN s.pending_transactions.local
    THEN Out("RequestDoesNotExist", s, <<>>)
    ELSE
    LET pending_request ==
            s.pending_transactions.local[response_send_funds.request_id]
        response_signature_buffer ==
            create_response_signature_buffer(response_send_funds, pending_request)
        m1 == Mut("RemoveLocalPendingTransaction", response_send_funds.request_id)
        s1 == mutate(s, m1)
        success_credits == credits_on_success(pending_request)
        freeze_credits == credits_to_freeze(pending_request)
        new_local_pending_debt ==
            checked_sub(s1.balance.local_pending_debt, freeze_credits.v)
        m2 == Mut("SetLocalPendingDebt", new_local_pending_debt.v)
        s2 == mutate(s1, m2)
        new_balance == checked_sub_unsigned(s2.balance.balance, success_credits.v)
        m3 == Mut("SetBalance", new_balance.v)
        s3 == mutate(s2, m3)
    IN  IF ~verify_signature(response_signature_buffer,
                             s.idents.remote_public_key,
                             response_send_funds.signature)
            THEN Out("InvalidResponseSignature", s, <<>>)
        ELSE IF find_pk_pair(pending_request.route,
                             s.idents.local_public_key,
                             s.idents.remote_public_key) = None
            THEN Out(Panic, s, <<>>)
        ELSE IF ~success_credits.some \/ ~freeze_credits.some
                    \/ ~new_local_pending_debt.some
            THEN Out(Panic, s1, <<m1>>)
        ELSE IF ~new_balance.some
            THEN Out(Panic, s2, <<m1, m2>>)
        ELSE Out(Ok, s3, <<m1, m2, m3>>)

\* The reservation of a pending transaction: dest_payment + left_fees.
Reserved(pending) == pending.dest_payment + pending.left_fees

process_cancel_send_funds(s, cancel_send_funds) ==
    IF cancel_send_funds.request_id \notin DOMAIN s.pending_transactions.local
    THEN Out("RequestDoesNotExist", s, <<>>)
    ELSE
    LET pending == s.pending_transactions.local[cancel_send_funds.request_id]
        m1 == Mut("RemoveLocalPendingTransaction", cancel_send_funds.request_id)
        m2 == Mut("SetLocalPendingDebt",
                  s.balance.local_pending_debt - Reserved(pending))
    IN  Out(Ok, mutate(mutate(s, m1), m2), <<m1, m2>>)

\* A collect handler that only checks the source lock.
process_collect_any_stage(s, collect_send_funds) ==
    IF collect_send_funds.request_id \notin DOMAIN s.pending_transactions.local
    THEN Out("RequestDoesNotExist", s, <<>>)
    ELSE
    LET pending == s.pending_transactions.local[collect_send_funds.request_id]
        m1 == Mut("RemoveLocalPendingTransaction", collect_send_funds.request_id)
        m2 == Mut("SetLocalPendingDebt",
                  s.balance.local_pending_debt - Reserved(pending))
        m3 == Mut("SetBalance", s.balance.balance - Reserved(pending))
    IN  IF HashLock(collect_send_funds.src_plain_lock) # pending.src_hashed_lock
            THEN Out("InvalidSrcPlainLock", s, <<>>)
        ELSE Out(Ok, mutate(mutate(mutate(s, m1), m2), m3), <<m1, m2, m3>>)

process_collect_send_funds(s, collect_send_funds) ==
    IF collect_send_funds.request_id \notin DOMAIN s.pending_transactions.local
    THEN Out("RequestDoesNotExist", s, <<>>)
    ELSE
    LET pending == s.pending_transactions.local[collect_send_funds.request_id]
        m1 == Mut("RemoveLocalPendingTransaction", collect_send_funds.request_id)
        m2 == Mut("SetLocalPendingDebt",
                  s.balance.local_pending_debt - Reserved(pending))
        m3 == Mut("SetBalance", s.balance.balance - Reserved(pending))
    IN  IF pending.stage.kind # "Response"
            THEN Out("NotExpectingCollect", s, <<>>)
        ELSE IF HashLock(collect_send_funds.src_plain_lock)
                    # pending.src_hashed_lock
            THEN Out("InvalidSrcPlainLock", s, <<>>)
        ELSE IF HashLock(collect_send_funds.dest_plain_lock)
                    # pending.stage.dest_hashed_lock
            THEN Out("InvalidDestPlainLock", s, <<>>)
        ELSE Out(Ok, mutate(mutate(mutate(s, m1), m2), m3), <<m1, m2, m3>>)

\* The index of a public key in a route.
pk_to_index(route, pk) ==
    LET hits == {i \in DOMAIN route : route[i] = pk}
    IN  IF hits = {} THEN None
        ELSE Some((CHOOSE i \in hits : \A j \in hits : i <= j) - 1)

\* What the reporting node signs.
create_failure_signature_buffer(failure_send_funds, pending_request) ==
    <<"FUND_FAILURE", pending_request.request_id, pending_request.route,
      pending_request.dest_payment, failure_send_funds.reporting_public_key,
      failure_send_funds.rand_nonce>>

verify_failure_signature(failure_send_funds, pending_request) ==
    verify_signature(create_failure_signature_buffer(failure_send_funds, pending_request),
                     failure_send_funds.reporting_public_key,
                     failure_send_funds.signature)

\* The credits paid for a reported failure: one for the reporting node and
\* one for every node between it and the remote side.
credits_on_failure(remote_index, reporting_index) ==
    IF reporting_index < remote_index THEN None
    ELSE checked_add(reporting_index - remote_index, 1)

\* A failure handler that removes the pending request before it looks at
\* the reporting node and at the signature.
process_failure_removing_first(s, failure_send_funds) ==
    IF failure_send_funds.request_id \notin DOMAIN s.pending_transactions.local
    THEN Out("RequestDoesNotExist", s, <<>>)
    ELSE
    LET pending_request ==
            s.pending_transactions.local[failure_send_funds.request_id]
        m1 == Mut("RemoveLocalPendingTransaction", failure_send_funds.request_id)
        s1 == mutate(s, m1)
    IN  IF ~verify_failure_signature(failure_send_funds, pending_request)
            THEN Out("InvalidFailureSignature", s1, <<m1>>)
        ELSE Out(Ok, s1, <<m1>>)

\* The part of the failure handler that follows its checks: the pending
\* request is removed, its credits are released and the failure is paid.
\* Removing the pending request leaves the balance as it was, so the new
\* pending debt and the new balance are computed from the state before it.
settle_failure(s, request_id, failure_credits, freeze_credits) ==
    LET new_local_pending_debt ==
            checked_sub(s.balance.local_pending_debt, freeze_credits.v)
        new_balance == checked_sub_unsigned(s.balance.balance, failure_credits.v)
        m1 == Mut("RemoveLocalPendingTransaction", request_id)
        m2 == Mut("SetLocalPendingDebt", new_local_pending_debt.v)
        m3 == Mut("SetBalance", new_balance.v)
    IN  IF ~failure_credits.some \/ ~freeze_credits.some
                \/ ~new_local_pending_debt.some
            THEN Out(Panic, MutateAll(s, <<m1>>), <<m1>>)
        ELSE IF ~new_balance.some
            THEN Out(Panic, MutateAll(s, <<m1, m2>>), <<m1, m2>>)
        ELSE Out(Ok, MutateAll(s, <<m1, m2, m3>>), <<m1, m2, m3>>)

process_failure_send_funds(s, failure_send_funds) ==
    IF failure_send_funds.request_id \notin DOMAIN s.pending_transactions.local
    THEN Out("RequestDoesNotExist", s, <<>>)
    ELSE
    LET pending_request ==
            s.pending_transactions.local[failure_send_funds.request_id]
        local_index == find_pk_pair(pending_request.route,
                                    s.idents.local_public_key,
                                    s.idents.remote_public_key)
        reporting_index == pk_to_index(pending_request.route,
                                       failure_send_funds.reporting_public_key)
    IN  IF ~local_index.some
            THEN Out(Panic, s, <<>>)
        ELSE IF ~reporting_index.some
            THEN Out("ReportingNodeNonexistent", s, <<>>)
        ELSE IF reporting_index.v <= local_index.v
            THEN Out("InvalidReportingNode", s, <<>>)
        ELSE IF ~verify_failure_signature(failure_send_funds, pending_request)
            THEN Out("InvalidFailureSignature", s, <<>>)
        ELSE settle_failure(s, failure_send_funds.request_id,
                            credits_on_failure(local_index.v + 1, reporting_index.v),
                            credits_to_freeze(pending_request))

process_operation(s, funds) ==
    CASE funds.type = "EnableRequests" -> process_enable_requests(s)
      [] funds.type = "DisableRequests" -> process_disable_requests(s)
      [] funds.type = "SetRemoteMaxDebt" ->
            process_set_remote_max_debt(s, funds.proposed_max_debt)
      [] funds.type = "RequestSendFunds" -> process_request_send_funds(s, funds)
      [] funds.type = "ResponseSendFunds" -> process_response_send_funds(s, funds)
      [] funds.type = "FailureSendFunds" -> process_failure_send_funds(s, funds)
      [] funds.type = "CancelSendFunds" -> process_cancel_send_funds(s, funds)
      [] funds.type = "CollectSendFunds" -> process_collect_send_funds(s, funds)

\* A processing that keeps the outputs of the operations before the failure.
RECURSIVE ProcessFromPartial(_, _, _, _)
ProcessFromPartial(cloned_token_channel, operations, index, outputs) ==
    IF index > Len(operations)
    THEN [err |-> Ok, index |-> 0, outputs |-> outputs]
    ELSE LET r == process_operation(cloned_token_channel, operations[index])
         IN  IF r.err # Ok
             THEN [err |-> r.err, index |-> index, outputs |-> outputs]
             ELSE ProcessFromPartial(r.tc, operations, index + 1,
                                     Append(outputs, r.tc_mutations))

\* The operations are processed in order over a clone; the first error ends
\* the processing.  Returns the error with its index, or the outputs.
RECURSIVE ProcessFrom(_, _, _, _)
ProcessFrom(cloned_token_channel, operations, index, outputs) ==
    IF index > Len(operations)
    THEN [err |-> Ok, index |-> 0, outputs |-> outputs]
    ELSE LET r == process_operation(cloned_token_channel, operations[index])
         IN  IF r.err # Ok
             THEN [err |-> r.err, index |-> index, outputs |-> <<>>]
             ELSE ProcessFrom(r.tc, operations, index + 1,
                              Append(outputs, r.tc_mutations))

simulate_process_operations_list(token_channel, operations) ==
    ProcessFrom(token_channel, operations, 1, <<>>)

\* All the mutations of the outputs, in order.
RECURSIVE Flatten(_)
Flatten(outputs) ==
    IF outputs = <<>> THEN <<>> ELSE Head(outputs) \o Flatten(Tail(outputs))


----------------------------------------------------------------------------
(* Queueing of outgoing operations (OutgoingMc::queue_operation): the      *)
(* operation is validated against the unit and yields its mutations.       *)

queue_enable_requests(s) ==
    IF s.requests_status.local = "Open"
    THEN Out("RequestsAlreadyOpen", s, <<>>)
    ELSE LET m == Mut("SetLocalRequestsStatus", "Open")
         IN  Out(Ok, mutate(s, m), <<m>>)

queue_disable_requests(s) ==
    IF s.requests_status.local = "Closed"
    THEN Out("RequestsAlreadyDisabled", s, <<>>)
    ELSE LET m == Mut("SetLocalRequestsStatus", "Closed")
         IN  Out(Ok, mutate(s, m), <<m>>)

queue_set_remote_max_debt(s, proposed_max_debt) ==
    IF proposed_max_debt > MAX_FUNDER_DEBT
    THEN Out("RemoteMaxDebtTooLarge", s, <<>>)
    ELSE LET m == Mut("SetRemoteMaxDebt", proposed_max_debt)
         IN  Out(Ok, mutate(s, m), <<m>>)

\* A queueing that does not compare the reservation with the credit.
queue_request_send_funds_trusting(s, request_send_funds) ==
    LET pending == create_pending_transaction(request_send_funds)
        own_freeze_credits == credits_to_freeze(pending)
        new_local_pending_debt ==
            checked_add(s.balance.local_pending_debt, own_freeze_credits.v)
        m1 == Mut("InsertLocalPendingTransaction", pending)
        m2 == Mut("SetLocalPendingDebt", new_local_pending_debt.v)
    IN  IF ~is_route_valid(request_send_funds.route)
            THEN Out("InvalidRoute", s, <<>>)
        ELSE IF s.requests_status.remote # "Open"
            THEN Out("RemoteRequestsClosed", s, <<>>)
        ELSE IF ~own_freeze_credits.some \/ ~new_local_pending_debt.some
            THEN Out("CreditsCalcOverflow", s, <<>>)
        ELSE IF request_send_funds.request_id
                    \in DOMAIN s.pending_transactions.local
            THEN Out("RequestAlreadyExists", s, <<>>)
        ELSE Out(Ok, mutate(mutate(s, m1), m2), <<m1, m2>>)

queue_request_send_funds(s, request_send_funds) ==
    LET pending == create_pending_transaction(request_send_funds)
        own_freeze_credits == credits_to_freeze(pending)
        new_local_pending_debt ==
            checked_add(s.balance.local_pending_debt, own_freeze_credits.v)
        m1 == Mut("InsertLocalPendingTransaction", pending)
        m2 == Mut("SetLocalPendingDebt", new_local_pending_debt.v)
    IN  IF ~is_route_valid(request_send_funds.route)
            THEN Out("InvalidRoute", s, <<>>)
        ELSE IF s.requests_status.remote # "Open"
            THEN Out("RemoteRequestsClosed", s, <<>>)
        ELSE IF ~own_freeze_credits.some \/ ~new_local_pending_debt.some
            THEN Out("CreditsCalcOverflow", s, <<>>)
        ELSE IF s.balance.balance - new_local_pending_debt.v
                    < 0 - s.balance.local_max_debt
            THEN Out("InsufficientTrust", s, <<>>)
        ELSE IF request_send_funds.request_id
                    \in DOMAIN s.pending_transactions.local
            THEN Out("RequestAlreadyExists", s, <<>>)
        ELSE Out(Ok, mutate(mutate(s, m1), m2), <<m1, m2>>)

queue_response_send_funds(s, response_send_funds) ==
    IF response_send_funds.request_id \notin DOMAIN s.pending_transactions.remote
    THEN Out("RequestDoesNotExist", s, <<>>)
    ELSE
    LET pending == s.pending_transactions.remote[response_send_funds.request_id]
        m == Mut("SetRemotePendingTransactionStage",
                 <<response_send_funds.request_id,
                   StageResponse(response_send_funds.dest_hashed_lock)>>)
    IN  IF pending.stage.kind # "Request"
            THEN Out("NotExpectingResponse", s, <<>>)
        ELSE Out(Ok, mutate(s, m), <<m>>)

queue_cancel_send_funds(s, cancel_send_funds) ==
    IF cancel_send_funds.request_id \notin DOMAIN s.pending_transactions.remote
    THEN Out("RequestDoesNotExist", s, <<>>)
    ELSE
    LET pending == s.pending_transactions.remote[cancel_send_funds.request_id]
        m1 == Mut("RemoveRemotePendingTransaction", cancel_send_funds.request_id)
        m2 == Mut("SetRemotePendingDebt",
                  s.balance.remote_pending_debt - Reserved(pending))
    IN  Out(Ok, mutate(mutate(s, m1), m2), <<m1, m2>>)

queue_collect_send_funds(s, collect_send_funds) ==
    IF collect_send_funds.request_id \notin DOMAIN s.pending_transactions.remote
    THEN Out("RequestDoesNotExist", s, <<>>)
    ELSE
    LET pending == s.pending_transactions.remote[collect_send_funds.request_id]
        m1 == Mut("RemoveRemotePendingTransaction", collect_send_funds.request_id)
        m2 == Mut("SetRemotePendingDebt",
                  s.balance.remote_pending_debt - Reserved(pending))
        m3 == Mut("SetBalance", s.balance.balance + Reserved(pending))
    IN  IF pending.stage.kind # "Response"
            THEN Out("NotExpectingCollect", s, <<>>)
        ELSE IF HashLock(collect_send_funds.src_plain_lock)
                    # pending.src_hashed_lock
            THEN Out("InvalidSrcPlainLock", s, <<>>)
        ELSE IF HashLock(collect_send_funds.dest_plain_lock)
                    # pending.stage.dest_hashed_lock
            THEN Out("InvalidDestPlainLock", s, <<>>)
        ELSE IF s.balance.balance + Reserved(pending) > I128_MAX
            THEN Out("CreditsCalcOverflow", s, <<>>)
        ELSE Out(Ok, mutate(mutate(mutate(s, m1), m2), m3), <<m1, m2, m3>>)

queue_operation(s, operation) ==
    CASE operation.type = "EnableRequests" -> queue_enable_requests(s)
      [] operation.type = "DisableRequests" -> queue_disable_requests(s)
      [] operation.type = "SetRemoteMaxDebt" ->
            queue_set_remote_max_debt(s, operation.proposed_max_debt)
      [] operation.type = "RequestSendFunds" ->
            queue_request_send_funds(s, operation)
      [] operation.type = "ResponseSendFunds" ->
            queue_response_send_funds(s, operation)
      [] operation.type = "CancelSendFunds" ->
            queue_cancel_send_funds(s, operation)
      [] operation.type = "CollectSendFunds" ->
            queue_collect_send_funds(s, operation)

\* Queue the operations one by one on the handle; the first failure discards
\* the handle.
RECURSIVE QueueFrom(_, _, _, _)
QueueFrom(outgoing_mc, operations, index, mutations) ==
    IF index > Len(operations)
    THEN [err |-> Ok, index |-> 0, tc |-> outgoing_mc, mutations |-> mutations]
    ELSE LET r == queue_operation(outgoing_mc, operations[index])
         IN  IF r.err # Ok
             THEN [err |-> r.err, index |-> index, tc |-> outgoing_mc,
                   mutations |-> <<>>]
             ELSE QueueFrom(r.tc, operations, index + 1,
                            mutations \o r.tc_mutations)

queue_operations_list(s, operations) == QueueFrom(s, operations, 1, <<>>)


----------------------------------------------------------------------------
(* The operations handed to the handlers *)

Uids == {1}

DebtVals == {0, 3, MAX_FUNDER_DEBT, MAX_FUNDER_DEBT + 1}

Payments == {1, 2}

Fees == {1}

PlainLocks == {1, 9}

\* The routes of a request sent by x to y.
Routes(x, y) == {<<x, y, PkC>>, <<x, y, x>>, <<PkC, x, y>>}

FreezeLinksLens == {1, 2}

\* The balances a channel is reset to.
ResetBalances == {0 - 2, 0, 2}

SrcPlainLock == 1

DestPlainLock == 2

RequestOps(x, y) ==
    {RequestSendFunds(id, SrcPlainLock, route, dp, lf, fl) :
        id \in Uids, route \in Routes(x, y), dp \in Payments, lf \in Fees,
        fl \in FreezeLinksLens}

\* The responses to the pending transactions `pendings`, signed by one of
\* `signers`; a response to no pending transaction carries an empty buffer.
ResponseOps(pendings, signers) ==
    {LET unsigned == ResponseSendFunds(id, HashLock(DestPlainLock), 5, Sign(0, <<>>))
         buf == IF id \in DOMAIN pendings
                THEN create_response_signature_buffer(unsigned, pendings[id])
                ELSE <<>>
     IN  [unsigned EXCEPT !.signature = Sign(k, buf)] :
        id \in Uids, k \in signers}

CancelOps == {CancelSendFunds(id) : id \in Uids}

CollectOps ==
    {CollectSendFunds(id, sp, dp) :
        id \in Uids, sp \in {SrcPlainLock, 9}, dp \in {DestPlainLock, 9}}

ControlOps ==
    {EnableRequests, DisableRequests} \cup {SetRemoteMaxDebt(x) : x \in DebtVals}

\* What the remote side of s may send.
IncomingOps(s) ==
    ControlOps
        \cup RequestOps(s.idents.remote_public_key, s.idents.local_public_key)
        \cup ResponseOps(s.pending_transactions.local,
                         {s.idents.remote_public_key, PkC})
        \cup CancelOps \cup CollectOps

\* What the local side of s may queue.
OutgoingOps(s) ==
    ControlOps
        \cup RequestOps(s.idents.local_public_key, s.idents.remote_public_key)
        \cup ResponseOps(s.pending_transactions.remote,
                         {s.idents.local_public_key, PkC})
        \cup CancelOps \cup CollectOps

\* Lists of one operation, and of two control operations.
OpLists(ops) ==
    {<<o>> : o \in ops} \cup {<<o1, o2>> : o1 \in ControlOps, o2 \in ControlOps}

\* The unit that is driven operation by operation.
McPeers == {PkA}

----------------------------------------------------------------------------
(* The mutual-credit units of the two friends, driven operation by         *)
(* operation.                                                              *)

Event(kind, peer, ops, msg, result, err, index, mutations) ==
    [kind |-> kind, peer |-> peer, ops |-> ops, msg |-> msg, result |-> result,
     err |-> err, index |-> index, mutations |-> mutations]

NoEvent == Event("init", PkA, <<>>, None, "", Ok, 0, <<>>)

InitMc ==
    /\ \E b \in ResetBalances :
          tc = [p \in Peers |->
                  MutualCreditNew(p, Remote(p), IF p = PkA THEN b ELSE 0 - b)]
    /\ direction = [p \in Peers |-> [kind |-> "Incoming"]]
    /\ new_token = [p \in Peers |-> <<"sha", 0>>]
    /\ ev = NoEvent
    /\ steps = 0
    /\ funder = FunderStateNew
    /\ outgoing_control = <<>>
    /\ compact = CompactServerNew({})
    /\ liveness = LivenessNew

\* p processes a list of operations received from the remote side; the
\* mutations are applied when the whole list was processed.
McIncoming(p, ops) ==
    LET r == simulate_process_operations_list(tc[p], ops)
        mutations == Flatten(r.outputs)
    IN  /\ steps < MaxSteps
        /\ tc' = [tc EXCEPT ![p] = MutateAll(@, mutations)]
        /\ ev' = Event("incoming", p, ops, None, "", r.err, r.index, mutations)
        /\ steps' = steps + 1
        /\ UNCHANGED <<direction, new_token, funder, outgoing_control, compact, liveness>>

\* p queues a list of outgoing operations and applies their mutations.
McOutgoing(p, ops) ==
    LET r == queue_operations_list(tc[p], ops)
    IN  /\ steps < MaxSteps
        /\ tc' = [tc EXCEPT ![p] = MutateAll(@, r.mutations)]
        /\ ev' = Event("outgoing", p, ops, None, "", r.err, r.index, r.mutations)
        /\ steps' = steps + 1
        /\ UNCHANGED <<direction, new_token, funder, outgoing_control, compact, liveness>>

\* p queues a list of operations and the remote side processes it.
McExchange(p, ops) ==
    LET q == Remote(p)
        out == queue_operations_list(tc[p], ops)
        r == simulate_process_operations_list(tc[q], ops)
        mutations == Flatten(r.outputs)
    IN  /\ steps < MaxSteps
        /\ out.err = Ok
        /\ tc' = [tc EXCEPT ![p] = MutateAll(@, out.mutations),
                            ![q] = MutateAll(@, mutations)]
        /\ ev' = Event("exchange", p, ops, None, "", r.err, r.index, mutations)
        /\ steps' = steps + 1
        /\ UNCHANGED <<direction, new_token, funder, outgoing_control, compact, liveness>>

NextMc ==
    \/ \E p \in McPeers : \E ops \in OpLists(IncomingOps(tc[p])) : McIncoming(p, ops)
    \/ \E p \in McPeers : \E ops \in OpLists(OutgoingOps(tc[p])) : McOutgoing(p, ops)

SpecMc == InitMc /\ [][NextMc]_vars

\* The two units of a channel, driven by whole exchanges only.
NextExchange ==
    \E p \in Peers : \E ops \in OpLists(OutgoingOps(tc[p])) : McExchange(p, ops)

SpecExchange == InitMc /\ [][NextExchange]_vars

\* The operations of a transaction that the remote side of s may send in a
\* list of two; the requests carry one freeze link.
TransactionOps(s) ==
    {r \in RequestOps(s.idents.remote_public_key, s.idents.local_public_key) :
            r.freeze_links = 1}
        \cup ResponseOps(s.pending_transactions.local,
                         {s.idents.remote_public_key, PkC})
        \cup CancelOps \cup CollectOps

\* Lists of two operations that reference the same request id.
SameIdPairs(ops) ==
    {pair \in ops \X ops : pair[1].request_id = pair[2].request_id}

\* A unit that receives lists of two operations of one request id, between
\* control operations and the operations it queues itself.
NextBatch ==
    \/ \E p \in McPeers :
          \E ops \in OpLists(ControlOps) \cup SameIdPairs(TransactionOps(tc[p])) :
              McIncoming(p, ops)
    \/ \E p \in McPeers : \E ops \in {<<o>> : o \in OutgoingOps(tc[p])} :
              McOutgoing(p, ops)

SpecBatch == InitMc /\ [][NextBatch]_vars

\* The failures reported for the pending transactions `pendings` by one of
\* `reporters`, signed by one of `signers`; a failure of no pending
\* transaction carries an empty buffer.
FailureOps(pendings, reporters, signers) ==
    {LET unsigned == FailureSendFunds(id, reporter, 5, Sign(0, <<>>))
         buf == IF id \in DOMAIN pendings
                THEN create_failure_signature_buffer(unsigned, pendings[id])
                ELSE <<>>
     IN  [unsigned EXCEPT !.signature = Sign(k, buf)] :
        id \in Uids, reporter \in reporters, k \in signers}

\* p processes one operation received from the remote side, in place: the
\* unit is left as the handler left it.
McProcess(p, funds) ==
    /\ steps < MaxSteps
    /\ ev.err # Panic
    /\ \E r \in {process_operation(tc[p], funds)} :
          /\ tc' = [tc EXCEPT ![p] = r.tc]
          /\ ev' = Event("process_operation", p, <<funds>>, None, "", r.err, 0,
                         r.tc_mutations)
    /\ steps' = steps + 1
    /\ UNCHANGED <<direction, new_token, funder, outgoing_control, compact, liveness>>

\* One unit, driven by single incoming operations and by what it queues.
NextOp ==
    \/ \E p \in McPeers :
          \E funds \in IncomingOps(tc[p])
                        \cup FailureOps(tc[p].pending_transactions.local,
                                        {PkA, PkB, PkC}, {PkB, PkC}) :
             McProcess(p, funds)
    \/ \E p \in McPeers : \E ops \in OpLists(OutgoingOps(tc[p])) :
          /\ ev.err # Panic
          /\ McOutgoing(p, ops)

SpecOp == InitMc /\ [][NextOp]_vars


----------------------------------------------------------------------------
(* The directional token channel *)

TOKEN_NEXT == "NEXT"

token_channel_index == 0

Inner(operations, old_token, rand_nonce) ==
    [operations |-> operations, old_token |-> old_token, rand_nonce |-> rand_nonce]

InnerOf(move_token) ==
    Inner(move_token.operations, move_token.old_token, move_token.rand_nonce)

\* Calculate the next token, given the values of the previous move token
\* message: the hash of its fields.
calc_channel_next_token(index, move_token_message) ==
    <<TOKEN_NEXT, index, move_token_message.operations,
      move_token_message.old_token, move_token_message.rand_nonce>>

Incoming == [kind |-> "Incoming"]

Outgoing(move_token_inner) == [kind |-> "Outgoing", inner |-> move_token_inner]

Channel(dir, token, token_channel) ==
    [direction |-> dir, new_token |-> token, token_channel |-> token_channel]

\* The channel of peer p in the current state.
ChannelOf(p) == Channel(direction[p], new_token[p], tc[p])

\* A constructor after which either side may send first.
DirectionalTokenChannelNewIncoming(local_public_key, remote_public_key) ==
    LET local_pk_hash == PkHash(local_public_key)
        rand_nonce == <<"trim", PkHash(remote_public_key)[2]>>
        first_move_token_lower == Inner(<<>>, local_pk_hash, rand_nonce)
    IN  Channel(Incoming,
                calc_channel_next_token(token_channel_index, first_move_token_lower),
                MutualCreditNew(local_public_key, remote_public_key, 0))

DirectionalTokenChannelNew(local_public_key, remote_public_key) ==
    LET local_pk_hash == PkHash(local_public_key)
        remote_pk_hash == PkHash(remote_public_key)
        new_token_channel == MutualCreditNew(local_public_key, remote_public_key, 0)
        rand_nonce == <<"trim", remote_pk_hash[2]>>
        first_move_token_lower == Inner(<<>>, local_pk_hash, rand_nonce)
        token == calc_channel_next_token(token_channel_index, first_move_token_lower)
    IN  IF HashLess(local_pk_hash, remote_pk_hash)
        THEN Channel(Outgoing(Inner(<<>>, local_pk_hash, rand_nonce)),
                     token, new_token_channel)
        ELSE Channel(Incoming, token, new_token_channel)

\* A channel that is rebuilt with a zero balance.
new_from_reset_without_balance(local_public_key, remote_public_key, current_token, balance) ==
    Channel(Incoming, current_token,
            MutualCreditNew(local_public_key, remote_public_key, 0))

new_from_reset(local_public_key, remote_public_key, current_token, balance) ==
    Channel(Incoming, current_token,
            MutualCreditNew(local_public_key, remote_public_key, balance))

\* A message that carries the token its operations were chained on.
create_outgoing_with_old_token(ch, move_token_inner) ==
    [operations |-> move_token_inner.operations,
     old_token |-> move_token_inner.old_token,
     rand_nonce |-> move_token_inner.rand_nonce,
     new_token |-> move_token_inner.old_token]

create_outgoing_move_token(ch, move_token_inner) ==
    [operations |-> move_token_inner.operations,
     old_token |-> move_token_inner.old_token,
     rand_nonce |-> move_token_inner.rand_nonce,
     new_token |-> ch.new_token]

get_outgoing_move_token(ch) ==
    IF ch.direction.kind = "Incoming" THEN None
    ELSE Some(create_outgoing_move_token(ch, ch.direction.inner))

\* None when a move token is already outgoing; else the sender's handle: a
\* clone of the unit.
begin_outgoing_move_token(ch) ==
    IF ch.direction.kind = "Outgoing" THEN None ELSE Some(ch.token_channel)

Received(result, err, index, outputs, retransmit) ==
    [result |-> result, err |-> err, index |-> index, outputs |-> outputs,
     retransmit |-> retransmit]

\* A receiver that processes the operations of a duplicate again.
simulate_receive_reprocess(ch, move_token_message, token) ==
    LET expected_new_token ==
            calc_channel_next_token(token_channel_index, move_token_message)
        r == simulate_process_operations_list(ch.token_channel,
                                              move_token_message.operations)
    IN  IF expected_new_token # token
            THEN Received("ChainInconsistency", Ok, 0, <<>>, None)
        ELSE IF ch.direction.kind = "Incoming" /\ token # ch.new_token
            THEN Received("ChainInconsistency", Ok, 0, <<>>, None)
        ELSE IF ch.direction.kind = "Incoming"
                    \/ move_token_message.old_token = ch.new_token
            THEN IF r.err = Ok
                 THEN Received("ProcessOpsListOutput", Ok, 0, r.outputs, None)
                 ELSE Received("InvalidTransaction", r.err, r.index, <<>>, None)
        ELSE IF ch.direction.inner.old_token = token
            THEN Received("RetransmitOutgoing", Ok, 0, <<>>,
                          Some(create_outgoing_move_token(ch, ch.direction.inner)))
        ELSE Received("ChainInconsistency", Ok, 0, <<>>, None)

\* A receiver that, holding an outgoing message, processes any well-formed
\* message without looking at the token it is chained on.
simulate_receive_unchained(ch, move_token_message, token) ==
    LET expected_new_token ==
            calc_channel_next_token(token_channel_index, move_token_message)
        r == simulate_process_operations_list(ch.token_channel,
                                              move_token_message.operations)
    IN  IF expected_new_token # token
            THEN Received("ChainInconsistency", Ok, 0, <<>>, None)
        ELSE IF ch.direction.kind = "Incoming"
            THEN IF token = ch.new_token
                 THEN Received("Duplicate", Ok, 0, <<>>, None)
                 ELSE Received("ChainInconsistency", Ok, 0, <<>>, None)
        ELSE IF r.err = Ok
            THEN Received("ProcessOpsListOutput", Ok, 0, r.outputs, None)
        ELSE Received("InvalidTransaction", r.err, r.index, <<>>, None)

simulate_receive_move_token(ch, move_token_message, token) ==
    LET expected_new_token ==
            calc_channel_next_token(token_channel_index, move_token_message)
        r == simulate_process_operations_list(ch.token_channel,
                                              move_token_message.operations)
    IN  IF expected_new_token # token
            THEN Received("ChainInconsistency", Ok, 0, <<>>, None)
        ELSE IF ch.direction.kind = "Incoming"
            THEN IF token = ch.new_token
                 THEN Received("Duplicate", Ok, 0, <<>>, None)
                 ELSE Received("ChainInconsistency", Ok, 0, <<>>, None)
        ELSE IF move_token_message.old_token = ch.new_token
            THEN IF r.err = Ok
                 THEN Received("ProcessOpsListOutput", Ok, 0, r.outputs, None)
                 ELSE Received("InvalidTransaction", r.err, r.index, <<>>, None)
        ELSE IF ch.direction.inner.old_token = token
            THEN Received("RetransmitOutgoing", Ok, 0, <<>>,
                          Some(create_outgoing_move_token(ch, ch.direction.inner)))
        ELSE Received("ChainInconsistency", Ok, 0, <<>>, None)


----------------------------------------------------------------------------
(* Two friends and their directional token channels *)

Init ==
    LET ch == [p \in Peers |-> DirectionalTokenChannelNew(p, Remote(p))]
    IN  /\ tc = [p \in Peers |-> ch[p].token_channel]
        /\ direction = [p \in Peers |-> ch[p].direction]
        /\ new_token = [p \in Peers |-> ch[p].new_token]
        /\ ev = NoEvent
        /\ steps = 0
        /\ funder = FunderStateNew
        /\ outgoing_control = <<>>
        /\ compact = CompactServerNew({})
        /\ liveness = LivenessNew

\* The move token message whose hash is the token t.
MsgOfToken(t) ==
    [operations |-> t[3], old_token |-> t[4], rand_nonce |-> t[5], new_token |-> t]

IsNextToken(t) == Len(t) = 5

\* p takes the token, queues the operations and seals them into a move token:
\* the direction becomes Outgoing and the new token is the hash of the message.
\* A failed queueing discards the handle.
SendMoveToken(p, ops) ==
    LET handle == begin_outgoing_move_token(ChannelOf(p))
        out == queue_operations_list(handle.v, ops)
        inner == Inner(ops, new_token[p], <<"rand", p>>)
        token == calc_channel_next_token(token_channel_index, inner)
    IN  /\ steps < MaxSteps
        /\ handle.some
        /\ steps' = steps + 1
        /\ UNCHANGED <<funder, outgoing_control, compact, liveness>>
        /\ IF out.err = Ok
           THEN /\ tc' = [tc EXCEPT ![p] = out.tc]
                /\ direction' = [direction EXCEPT ![p] = Outgoing(inner)]
                /\ new_token' = [new_token EXCEPT ![p] = token]
                /\ ev' = Event("send", p, ops,
                               Some([operations |-> ops,
                                     old_token |-> new_token[p],
                                     rand_nonce |-> <<"rand", p>>,
                                     new_token |-> token]),
                               "Sent", Ok, 0, out.mutations)
           ELSE /\ UNCHANGED <<tc, direction, new_token, compact, liveness>>
                /\ ev' = Event("send", p, ops, None, "Discarded",
                               out.err, out.index, <<>>)

\* q receives a move token message.  When its operations were processed the
\* mutations are applied, the direction becomes Incoming and the token is the
\* one of the message.
ReceiveMoveToken(q, move_token) ==
    LET r == simulate_receive_move_token(ChannelOf(q), InnerOf(move_token),
                                         move_token.new_token)
        mutations == Flatten(r.outputs)
    IN  /\ steps < MaxSteps
        /\ steps' = steps + 1
        /\ UNCHANGED <<funder, outgoing_control, compact, liveness>>
        /\ ev' = Event("receive", q, move_token.operations, Some(move_token),
                       r.result, r.err, r.index, mutations)
        /\ IF r.result = "ProcessOpsListOutput"
           THEN /\ tc' = [tc EXCEPT ![q] = MutateAll(@, mutations)]
                /\ direction' = [direction EXCEPT ![q] = Incoming]
                /\ new_token' = [new_token EXCEPT ![q] = move_token.new_token]
           ELSE UNCHANGED <<tc, direction, new_token, compact, liveness>>

\* The message the remote side of q has outgoing: it is sent, and sent again,
\* until the next token arrives.
HonestInbox(q) ==
    LET m == get_outgoing_move_token(ChannelOf(Remote(q)))
    IN  IF m.some THEN {m.v} ELSE {}

\* The operation lists of the move tokens of the two-sided specifications.
TokenOpLists ==
    {<<>>, <<EnableRequests>>, <<DisableRequests>>, <<SetRemoteMaxDebt(3)>>,
     <<EnableRequests, DisableRequests>>,
     <<EnableRequests, SetRemoteMaxDebt(MAX_FUNDER_DEBT + 1)>>}

\* Any message the transport may hand to q: the remote side's message, the same
\* with a wrong new_token, a message chained on q's token, the message whose
\* hash q's token is, and the one q's pending message was chained on.
Inbox(q) ==
    HonestInbox(q)
        \cup {[m EXCEPT !.new_token = PkHash(0)] : m \in HonestInbox(q)}
        \cup {LET inner == Inner(ops, new_token[q], <<"rand", Remote(q)>>)
              IN  [operations |-> ops, old_token |-> inner.old_token,
                   rand_nonce |-> inner.rand_nonce,
                   new_token |-> calc_channel_next_token(token_channel_index, inner)] :
                ops \in TokenOpLists}
        \cup (IF IsNextToken(new_token[q]) THEN {MsgOfToken(new_token[q])} ELSE {})
        \cup (IF direction[q].kind = "Outgoing"
                    /\ IsNextToken(direction[q].inner.old_token)
              THEN {MsgOfToken(direction[q].inner.old_token)} ELSE {})

Next ==
    \/ \E p \in Peers : \E ops \in TokenOpLists : SendMoveToken(p, ops)
    \/ \E q \in Peers : \E m \in Inbox(q) : ReceiveMoveToken(q, m)

Spec == Init /\ [][Next]_vars

\* Two honest friends: each side only receives what the other side sent.
NextHonest ==
    \/ \E p \in Peers : \E ops \in OpLists(OutgoingOps(tc[p])) : SendMoveToken(p, ops)
    \/ \E q \in Peers : \E m \in HonestInbox(q) : ReceiveMoveToken(q, m)

SpecHonest == Init /\ [][NextHonest]_vars

\* The transport hands move_token to q, as often as it likes: a message that
\* is not accepted leaves the channel of q as it was.
DeliverMoveToken(q, move_token) ==
    /\ steps < MaxSteps
    /\ \E r \in {simulate_receive_move_token(ChannelOf(q), InnerOf(move_token),
                                              move_token.new_token)} :
       \E mutations \in {Flatten(r.outputs)} :
          /\ ev' = Event("receive", q, move_token.operations, Some(move_token),
                         r.result, r.err, r.index, mutations)
          /\ UNCHANGED <<funder, outgoing_control, compact, liveness>>
          /\ IF r.result = "ProcessOpsListOutput"
             THEN /\ tc' = [tc EXCEPT ![q] = MutateAll(@, mutations)]
                  /\ direction' = [direction EXCEPT ![q] = Incoming]
                  /\ new_token' = [new_token EXCEPT ![q] = move_token.new_token]
                  /\ steps' = steps + 1
             ELSE UNCHANGED <<tc, direction, new_token, steps>>

\* Two honest friends over a transport that loses and repeats messages.
NextHonestLive ==
    \/ \E p \in Peers : \E ops \in OpLists(OutgoingOps(tc[p])) : SendMoveToken(p, ops)
    \/ \E q \in Peers : \E m \in HonestInbox(q) : DeliverMoveToken(q, m)

\* A message that is sent again and again is delivered in the end.
SpecHonestLive ==
    /\ Init
    /\ [][NextHonestLive]_vars
    /\ \A q \in Peers : WF_vars(\E m \in HonestInbox(q) : DeliverMoveToken(q, m))


----------------------------------------------------------------------------
(* The funder of the node PkA: its friends, their queues, and the          *)
(* cancelling of requests. There is one currency; the relays, the name,    *)
(* the rate and the status of a friend, and the send commands of a handler *)
(* are left out. A panic of a handler sets `panicked`.                     *)

MaxFunderSteps == 8

Friends == {PkB, PkC}

\* The ids of the requests that friends send, and of those the user creates.
ForwardUids == {1}

UserUids == {2}

PaymentId == 7

AckUids == {5}

TOKEN_RESET == "RESET"

\* Calculate the token to be used for resetting the channel.
calc_channel_reset_token(index, token, balance) ==
    <<TOKEN_RESET, index, token, balance>>

ResetTerms(reset_token, inconsistency_counter, balance) ==
    [reset_token |-> reset_token,
     inconsistency_counter |-> inconsistency_counter,
     balance_for_reset |-> balance]

\* Option<ResetTerms>::None
NoResetTerms == [some |-> FALSE, v |-> ResetTerms(<<>>, 0, 0)]

ChannelInconsistent(local_reset_terms, opt_remote_reset_terms) ==
    [kind |-> "Inconsistent",
     local_reset_terms |-> local_reset_terms,
     opt_remote_reset_terms |-> opt_remote_reset_terms]

\* A consistent channel with empty queues.
ChannelConsistent(token_channel) ==
    [kind |-> "Consistent",
     token_channel |-> token_channel,
     pending_requests |-> <<>>,
     pending_backwards_ops |-> <<>>,
     pending_user_requests |-> <<>>]

BackwardsOpCancel(cancel_send_funds) == [kind |-> "Cancel", op |-> cancel_send_funds]

FriendStateNew(local_public_key, remote_public_key) ==
    [local_public_key |-> local_public_key,
     remote_public_key |-> remote_public_key,
     channel_status |->
        ChannelConsistent(DirectionalTokenChannelNew(local_public_key, remote_public_key))]

IsConsistent(friend) == friend.channel_status.kind = "Consistent"

\* The mutual-credit unit of a friend with a consistent channel.
UnitOf(friend) == friend.channel_status.token_channel.token_channel

PopFront(queue) == IF queue = <<>> THEN queue ELSE Tail(queue)

\* FriendState::mutate: Some(the friend after the mutation), or None where
\* the code reaches unreachable!().
friend_mutate(friend, friend_mutation) ==
    LET type == friend_mutation.type
        arg == friend_mutation.arg
        cs == friend.channel_status
    IN  IF type = "SetInconsistent"
            THEN Some([friend EXCEPT !.channel_status = arg])
        ELSE IF type = "SetConsistent"
            THEN Some([friend EXCEPT !.channel_status = ChannelConsistent(arg)])
        ELSE IF ~IsConsistent(friend)
            THEN None
        ELSE IF type = "TcMutation"
            THEN Some([friend EXCEPT !.channel_status.token_channel.token_channel =
                            mutate(UnitOf(friend), arg)])
        ELSE IF type = "PushBackPendingRequest"
            THEN Some([friend EXCEPT !.channel_status.pending_requests =
                            Append(cs.pending_requests, arg)])
        ELSE IF type = "PopFrontPendingRequest"
            THEN Some([friend EXCEPT !.channel_status.pending_requests =
                            PopFront(cs.pending_requests)])
        ELSE IF type = "PushBackPendingBackwardsOp"
            THEN Some([friend EXCEPT !.channel_status.pending_backwards_ops =
                            Append(cs.pending_backwards_ops, arg)])
        ELSE IF type = "PopFrontPendingBackwardsOp"
            THEN Some([friend EXCEPT !.channel_status.pending_backwards_ops =
                            PopFront(cs.pending_backwards_ops)])
        ELSE IF type = "PushBackPendingUserRequest"
            THEN Some([friend EXCEPT !.channel_status.pending_user_requests =
                            Append(cs.pending_user_requests, arg)])
        ELSE IF type = "PopFrontPendingUserRequest"
            THEN Some([friend EXCEPT !.channel_status.pending_user_requests =
                            PopFront(cs.pending_user_requests)])
        ELSE \* RemovePendingRequests
             Some([friend EXCEPT !.channel_status.pending_requests = <<>>,
                                 !.channel_status.pending_user_requests = <<>>])

FriendMutation(public_key, friend_mutation) ==
    [type |-> "FriendMutation", public_key |-> public_key, arg |-> friend_mutation]

Panicked(st) == [st EXCEPT !.panicked = TRUE]

Payment(kind, num_transactions, ack_uid) ==
    [kind |-> kind, num_transactions |-> num_transactions, ack_uid |-> ack_uid]

\* FunderState::mutate. A mutation of a friend that does not exist panics.
funder_mutate(st, funder_mutation) ==
    LET type == funder_mutation.type
        arg == funder_mutation.arg
    IN  IF st.panicked THEN st
        ELSE IF type = "FriendMutation"
            THEN IF funder_mutation.public_key \notin DOMAIN st.friends
                 THEN Panicked(st)
                 ELSE LET res == friend_mutate(st.friends[funder_mutation.public_key], arg)
                      IN  IF ~res.some THEN Panicked(st)
                          ELSE [st EXCEPT !.friends =
                                    MapInsert(st.friends, funder_mutation.public_key, res.v)]
        ELSE IF type = "AddFriend"
            THEN [st EXCEPT !.friends =
                    MapInsert(st.friends, arg, FriendStateNew(PkA, arg))]
        ELSE IF type = "RemoveFriend"
            THEN [st EXCEPT !.friends = MapRemove(st.friends, arg)]
        ELSE IF type = "AddTransaction"
            THEN [st EXCEPT !.open_transactions =
                    MapInsert(st.open_transactions, arg[1], [payment_id |-> arg[2]])]
        ELSE IF type = "RemoveTransaction"
            THEN [st EXCEPT !.open_transactions = MapRemove(st.open_transactions, arg)]
        ELSE IF type = "UpdatePayment"
            THEN [st EXCEPT !.payments = MapInsert(st.payments, arg[1], arg[2])]
        ELSE \* RemovePayment
             [st EXCEPT !.payments = MapRemove(st.payments, arg)]

\* The friend that sent the request `request_id` to this node: the friend
\* in whose channel the request is pending as a remote transaction.
find_request_origin(st, request_id) ==
    LET origins == {pk \in DOMAIN st.friends :
                        /\ IsConsistent(st.friends[pk])
                        /\ request_id \in DOMAIN
                                UnitOf(st.friends[pk]).pending_transactions.remote}
    IN  IF origins = {} THEN None ELSE Some(CHOOSE pk \in origins : TRUE)

create_cancel_send_funds(request_id) == CancelSendFunds(request_id)

reply_with_cancel(st, remote_public_key, request_id) ==
    funder_mutate(st, FriendMutation(remote_public_key,
        Mut("PushBackPendingBackwardsOp",
            BackwardsOpCancel(create_cancel_send_funds(request_id)))))

\* A removal that deletes the payment whenever no transaction is left.
remove_transaction_dropping(st, ack_uid, request_id) ==
    LET payment_id == st.open_transactions[request_id].payment_id
        payment == st.payments[payment_id]
        removed == funder_mutate(st, Mut("RemoveTransaction", request_id))
    IN  IF payment.num_transactions = 1
        THEN funder_mutate(removed, Mut("RemovePayment", payment_id))
        ELSE funder_mutate(removed,
                Mut("UpdatePayment",
                    <<payment_id,
                      Payment(payment.kind, payment.num_transactions - 1, payment.ack_uid)>>))

\* Remove a local transaction (where this node is the buyer side).
remove_transaction(st, ack_uid, request_id) ==
    IF st.panicked THEN st
    ELSE IF request_id \notin DOMAIN st.open_transactions THEN Panicked(st)
    ELSE IF st.open_transactions[request_id].payment_id \notin DOMAIN st.payments
        THEN Panicked(st)
    ELSE LET payment_id == st.open_transactions[request_id].payment_id
             payment == st.payments[payment_id]
             removed == funder_mutate(st, Mut("RemoveTransaction", request_id))
             new_num_transactions == checked_sub(payment.num_transactions, 1)
             update(new_payment) ==
                funder_mutate(removed, Mut("UpdatePayment", <<payment_id, new_payment>>))
         IN  IF payment.kind = "Canceled" \/ ~new_num_transactions.some
                THEN Panicked(removed)
             ELSE IF payment.kind = "InProgress" /\ new_num_transactions.v = 0
                THEN update(Payment("Canceled", 0, ack_uid))
             ELSE IF payment.kind = "AfterSuccessAck" /\ new_num_transactions.v = 0
                THEN funder_mutate(removed, Mut("RemovePayment", payment_id))
             ELSE update(Payment(payment.kind, new_num_transactions.v, payment.ack_uid))

\* The state of a handler: the funder state and what it reported so far.
Ctx(st, out) == [state |-> st, outgoing_control |-> out]

TransactionResult(request_id, result) ==
    [type |-> "TransactionResult", request_id |-> request_id, result |-> result]

\* A cancelling that also reports a failure to the application for a
\* request that came from a friend.
cancel_request_twice(c, ack_uid, request_id) ==
    LET opt_origin_public_key == find_request_origin(c.state, request_id)
    IN  IF c.state.panicked THEN c
        ELSE IF opt_origin_public_key.some
            THEN Ctx(reply_with_cancel(c.state, opt_origin_public_key.v, request_id),
                     Append(c.outgoing_control, TransactionResult(request_id, "Failure")))
        ELSE Ctx(remove_transaction(c.state, ack_uid, request_id),
                 Append(c.outgoing_control, TransactionResult(request_id, "Failure")))

\* Cancel one request: with a cancel message to the friend it came from,
\* or, when no friend is its origin, with a failure for the application.
cancel_request(c, ack_uid, request_id) ==
    LET opt_origin_public_key == find_request_origin(c.state, request_id)
    IN  IF c.state.panicked THEN c
        ELSE IF opt_origin_public_key.some
            THEN Ctx(reply_with_cancel(c.state, opt_origin_public_key.v, request_id),
                     c.outgoing_control)
        ELSE Ctx(remove_transaction(c.state, ack_uid, request_id),
                 Append(c.outgoing_control, TransactionResult(request_id, "Failure")))

RECURSIVE CancelLocalFrom(_, _, _, _)
CancelLocalFrom(c, ack_uid, order, i) ==
    IF i > Len(order) THEN c
    ELSE CancelLocalFrom(cancel_request(c, ack_uid, order[i]), ack_uid, order, i + 1)

\* The orders in which a map may be iterated.
Orders(m) ==
    {order \in [1..Cardinality(DOMAIN m) -> DOMAIN m] :
        \A i, j \in DOMAIN order : i # j => order[i] # order[j]}

\* Cancel the requests that are inside the token channel of a friend; the
\* local pending transactions are visited in `order`.
cancel_local_pending_transactions(c, ack_uid, order, friend_public_key) ==
    IF c.state.panicked THEN c
    ELSE IF friend_public_key \notin DOMAIN c.state.friends
        THEN Ctx(Panicked(c.state), c.outgoing_control)
    ELSE IF ~IsConsistent(c.state.friends[friend_public_key])
        THEN Ctx(Panicked(c.state), c.outgoing_control)
    ELSE CancelLocalFrom(c, ack_uid, order, 1)

RECURSIVE CancelPendingRequestsFrom(_, _, _, _)
CancelPendingRequestsFrom(c, ack_uid, pending_requests, friend_public_key) ==
    IF pending_requests = <<>> \/ c.state.panicked THEN c
    ELSE LET popped == funder_mutate(c.state,
                          FriendMutation(friend_public_key,
                                         Mut("PopFrontPendingRequest", 0)))
         IN  CancelPendingRequestsFrom(
                cancel_request(Ctx(popped, c.outgoing_control), ack_uid,
                               Head(pending_requests).request_id),
                ack_uid, Tail(pending_requests), friend_public_key)

\* Cancel all the requests in the pending_requests queue of a friend.
cancel_pending_requests(c, ack_uid, friend_public_key) ==
    IF c.state.panicked THEN c
    ELSE IF friend_public_key \notin DOMAIN c.state.friends
        THEN Ctx(Panicked(c.state), c.outgoing_control)
    ELSE IF ~IsConsistent(c.state.friends[friend_public_key])
        THEN Ctx(Panicked(c.state), c.outgoing_control)
    ELSE CancelPendingRequestsFrom(c, ack_uid,
            c.state.friends[friend_public_key].channel_status.pending_requests,
            friend_public_key)

RECURSIVE CancelPendingUserRequestsFrom(_, _, _, _)
CancelPendingUserRequestsFrom(c, ack_uid, pending_user_requests, friend_public_key) ==
    IF pending_user_requests = <<>> \/ c.state.panicked THEN c
    ELSE LET popped == funder_mutate(c.state,
                          FriendMutation(friend_public_key,
                                         Mut("PopFrontPendingUserRequest", 0)))
             request_id == Head(pending_user_requests).request_id
         IN  CancelPendingUserRequestsFrom(
                Ctx(remove_transaction(popped, ack_uid, request_id),
                    Append(c.outgoing_control, TransactionResult(request_id, "Failure"))),
                ack_uid, Tail(pending_user_requests), friend_public_key)

\* Cancel all the requests in the pending_user_requests queue of a friend.
cancel_pending_user_requests(c, ack_uid, friend_public_key) ==
    IF c.state.panicked THEN c
    ELSE IF friend_public_key \notin DOMAIN c.state.friends
        THEN Ctx(Panicked(c.state), c.outgoing_control)
    ELSE IF ~IsConsistent(c.state.friends[friend_public_key])
        THEN Ctx(Panicked(c.state), c.outgoing_control)
    ELSE CancelPendingUserRequestsFrom(c, ack_uid,
            c.state.friends[friend_public_key].channel_status.pending_user_requests,
            friend_public_key)

RECURSIVE apply_tc_mutations(_, _, _)
apply_tc_mutations(st, public_key, tc_mutations) ==
    IF tc_mutations = <<>> THEN st
    ELSE apply_tc_mutations(
            funder_mutate(st, FriendMutation(public_key,
                                             Mut("TcMutation", Head(tc_mutations)))),
            public_key, Tail(tc_mutations))

\* The reset terms this node offers for the channel of a friend.
local_reset_terms(friend) ==
    LET ch == friend.channel_status.token_channel
        balance == balance_for_reset(ch.token_channel)
    IN  ResetTerms(calc_channel_reset_token(token_channel_index, ch.new_token, balance.v),
                   1, balance.v)

\* The channel of a friend becomes inconsistent: the requests in the
\* channel and in the queues are cancelled, then the channel is replaced.
enter_inconsistent(c, ack_uid, order, friend_public_key, opt_remote_reset_terms) ==
    LET terms == local_reset_terms(c.state.friends[friend_public_key])
        c1 == cancel_local_pending_transactions(c, ack_uid, order, friend_public_key)
        c2 == cancel_pending_requests(c1, ack_uid, friend_public_key)
        c3 == cancel_pending_user_requests(c2, ack_uid, friend_public_key)
    IN  Ctx(funder_mutate(c3.state,
                FriendMutation(friend_public_key,
                    Mut("SetInconsistent",
                        ChannelInconsistent(terms, opt_remote_reset_terms)))),
            c3.outgoing_control)

FunderEvent(kind, peer) == Event(kind, peer, <<>>, None, "", Ok, 0, <<>>)

InitFunder ==
    /\ tc = [p \in Peers |-> MutualCreditNew(p, Remote(p), 0)]
    /\ direction = [p \in Peers |-> [kind |-> "Incoming"]]
    /\ new_token = [p \in Peers |-> <<"sha", 0>>]
    /\ ev = NoEvent
    /\ steps = 0
    /\ funder = FunderStateNew
    /\ outgoing_control = <<>>
    /\ compact = CompactServerNew({})
    /\ liveness = LivenessNew

\* A handler ends: the state it built and what it reported.
Handled(kind, peer, c) ==
    /\ steps < MaxFunderSteps
    /\ ~funder.panicked
    /\ funder' = c.state
    /\ outgoing_control' = c.outgoing_control
    /\ ev' = FunderEvent(kind, peer)
    /\ steps' = steps + 1
    /\ UNCHANGED <<tc, direction, new_token, compact, liveness>>

HasConsistent(st, f) == f \in DOMAIN st.friends /\ IsConsistent(st.friends[f])

LocalPending(st, f) == UnitOf(st.friends[f]).pending_transactions.local

\* The ids of the requests this node holds: in channels, queues, or open.
KnownUids(st) ==
    DOMAIN st.open_transactions
        \cup UNION {LET cs == st.friends[f].channel_status
                        unit == UnitOf(st.friends[f])
                    IN  DOMAIN unit.pending_transactions.local
                            \cup DOMAIN unit.pending_transactions.remote
                            \cup {cs.pending_requests[i].request_id :
                                    i \in DOMAIN cs.pending_requests}
                            \cup {cs.pending_user_requests[i].request_id :
                                    i \in DOMAIN cs.pending_user_requests} :
                    f \in {g \in DOMAIN st.friends : IsConsistent(st.friends[g])}}

\* The application adds the friend f.
AddFriend(f) ==
    /\ f \notin DOMAIN funder.friends
    /\ Handled("add_friend", f, Ctx(funder_mutate(funder, Mut("AddFriend", f)), <<>>))

\* The application sets the credit it gives to the friend f; the operation
\* is queued into the channel.
SetFriendRemoteMaxDebt(f, x) ==
    /\ HasConsistent(funder, f)
    /\ LET r == queue_set_remote_max_debt(UnitOf(funder.friends[f]), x)
       IN  Handled("set_remote_max_debt", f,
                   Ctx(apply_tc_mutations(funder, f, r.tc_mutations), <<>>))

\* The friend f opens its side for requests and gives credit to this node.
\* Operations that the channel refuses make the channel inconsistent.
ReceiveGrants(f, ops) ==
    /\ HasConsistent(funder, f)
    /\ LET r == simulate_process_operations_list(UnitOf(funder.friends[f]), ops)
       IN  \E ack_uid \in AckUids : \E order \in Orders(LocalPending(funder, f)) :
              Handled("receive_grants", f,
                  IF r.err = Ok
                  THEN Ctx(apply_tc_mutations(funder, f, Flatten(r.outputs)), <<>>)
                  ELSE enter_inconsistent(Ctx(funder, <<>>), ack_uid, order, f,
                                          NoResetTerms))

\* The friend f sends a request that this node relays to the next node of
\* the route: the request is queued for that friend, or cancelled when that
\* node is no friend with a consistent channel.  Request ids are random
\* values: the id of a new request is none that this node holds.
ReceiveRequest(f, request_send_funds) ==
    /\ HasConsistent(funder, f)
    /\ request_send_funds.request_id \notin KnownUids(funder)
    /\ LET r == simulate_process_operations_list(UnitOf(funder.friends[f]),
                                                 <<request_send_funds>>)
           next_hop == request_send_funds.route[3]
           processed == apply_tc_mutations(funder, f, Flatten(r.outputs))
       IN  \E ack_uid \in AckUids : \E order \in Orders(LocalPending(funder, f)) :
              Handled("receive_request", f,
                  IF r.err # Ok
                  THEN enter_inconsistent(Ctx(funder, <<>>), ack_uid, order, f,
                                          NoResetTerms)
                  ELSE IF HasConsistent(processed, next_hop)
                  THEN Ctx(funder_mutate(processed,
                              FriendMutation(next_hop,
                                  Mut("PushBackPendingRequest", request_send_funds))),
                           <<>>)
                  ELSE Ctx(reply_with_cancel(processed, f,
                                             request_send_funds.request_id), <<>>))

\* The application opens a payment.
CreatePayment ==
    /\ PaymentId \notin DOMAIN funder.payments
    /\ Handled("create_payment", PkA,
               Ctx(funder_mutate(funder,
                       Mut("UpdatePayment",
                           <<PaymentId, Payment("NewTransactions", 0, 0)>>)), <<>>))

\* The application creates a transaction of the payment through f.
CreateTransaction(f, request_send_funds) ==
    /\ HasConsistent(funder, f)
    /\ PaymentId \in DOMAIN funder.payments
    /\ funder.payments[PaymentId].kind = "NewTransactions"
    /\ request_send_funds.request_id \notin KnownUids(funder)
    /\ LET payment == funder.payments[PaymentId]
           st1 == funder_mutate(funder,
                      Mut("AddTransaction",
                          <<request_send_funds.request_id, PaymentId>>))
           st2 == funder_mutate(st1,
                      Mut("UpdatePayment",
                          <<PaymentId,
                            Payment("NewTransactions", payment.num_transactions + 1, 0)>>))
           st3 == funder_mutate(st2,
                      FriendMutation(f, Mut("PushBackPendingUserRequest",
                                            request_send_funds)))
       IN  Handled("create_transaction", f, Ctx(st3, <<>>))

\* The next queued request of the friend f (a request of the user first)
\* enters the channel; a request that the channel refuses is cancelled.
SendPending(f) ==
    /\ HasConsistent(funder, f)
    /\ \/ funder.friends[f].channel_status.pending_user_requests # <<>>
       \/ funder.friends[f].channel_status.pending_requests # <<>>
    /\ \E from_user \in {funder.friends[f].channel_status.pending_user_requests # <<>>} :
       \E request \in {IF from_user
                       THEN Head(funder.friends[f].channel_status.pending_user_requests)
                       ELSE Head(funder.friends[f].channel_status.pending_requests)} :
       \E popped \in {funder_mutate(funder,
                        FriendMutation(f,
                            Mut(IF from_user THEN "PopFrontPendingUserRequest"
                                ELSE "PopFrontPendingRequest", 0)))} :
       \E r \in {queue_request_send_funds(UnitOf(funder.friends[f]), request)} :
       \E ack_uid \in AckUids :
       \E c \in {IF r.err = Ok
                 THEN Ctx(apply_tc_mutations(popped, f, r.tc_mutations), <<>>)
                 ELSE IF from_user
                 THEN Ctx(remove_transaction(popped, ack_uid, request.request_id),
                          <<TransactionResult(request.request_id, "Failure")>>)
                 ELSE cancel_request(Ctx(popped, <<>>), ack_uid, request.request_id)} :
          Handled("send_pending", f, c)

\* The application removes the friend f: the requests in its channel and
\* in its queues are cancelled first.
RemoveFriend(f) ==
    /\ f \in DOMAIN funder.friends
    /\ \E ack_uid \in AckUids :
        \E order \in (IF IsConsistent(funder.friends[f])
                      THEN Orders(LocalPending(funder, f)) ELSE {<<>>}) :
          LET c0 == Ctx(funder, <<>>)
              c1 == cancel_local_pending_transactions(c0, ack_uid, order, f)
              c2 == cancel_pending_requests(c1, ack_uid, f)
              c3 == cancel_pending_user_requests(c2, ack_uid, f)
              c == IF IsConsistent(funder.friends[f]) THEN c3 ELSE c0
          IN  Handled("remove_friend", f,
                      Ctx(funder_mutate(c.state, Mut("RemoveFriend", f)),
                          c.outgoing_control))

\* The friend f goes offline: the requests in its queues are cancelled,
\* the requests inside its channel are kept.
FriendOffline(f) ==
    /\ HasConsistent(funder, f)
    /\ \E ack_uid \in AckUids :
          LET c1 == cancel_pending_requests(Ctx(funder, <<>>), ack_uid, f)
              c2 == cancel_pending_user_requests(c1, ack_uid, f)
          IN  Handled("friend_offline", f, c2)

\* The reset terms a friend may send.
RemoteResetTerms ==
    {ResetTerms(calc_channel_reset_token(token_channel_index, <<"sha", b>>, b), 1, b) :
        b \in ResetBalances}

\* The friend f reports an inconsistency, with its reset terms.
ReceiveInconsistencyError(f, remote_reset_terms) ==
    /\ f \in DOMAIN funder.friends
    /\ \E ack_uid \in AckUids :
        \E order \in (IF IsConsistent(funder.friends[f])
                      THEN Orders(LocalPending(funder, f)) ELSE {<<>>}) :
          Handled("inconsistency", f,
              IF IsConsistent(funder.friends[f])
              THEN enter_inconsistent(Ctx(funder, <<>>), ack_uid, order, f,
                                      Some(remote_reset_terms))
              ELSE Ctx(funder_mutate(funder,
                          FriendMutation(f,
                              Mut("SetInconsistent",
                                  ChannelInconsistent(
                                      funder.friends[f].channel_status.local_reset_terms,
                                      Some(remote_reset_terms))))),
                       <<>>))

\* The application accepts the reset terms of the friend f: the channel is
\* rebuilt from them.
ResetFriendChannel(f) ==
    /\ f \in DOMAIN funder.friends
    /\ ~IsConsistent(funder.friends[f])
    /\ funder.friends[f].channel_status.opt_remote_reset_terms.some
    /\ LET terms == funder.friends[f].channel_status.opt_remote_reset_terms.v
           token_channel == new_from_reset(PkA, f, terms.reset_token,
                                           terms.balance_for_reset)
       IN  Handled("reset_friend_channel", f,
                   Ctx(funder_mutate(funder,
                           FriendMutation(f, Mut("SetConsistent", token_channel))),
                       <<>>))

\* The other friend of this node.
OtherFriend(f) == IF f = PkB THEN PkC ELSE PkB

\* The requests the friend f sends to be relayed to the other friend.
ForwardedRequests(f) ==
    {RequestSendFunds(id, SrcPlainLock, <<f, PkA, OtherFriend(f)>>, 1, 1, 1) :
        id \in ForwardUids}

\* The requests the user sends through the friend f.
UserRequests(f) ==
    {RequestSendFunds(id, SrcPlainLock, <<PkA, f>>, 1, 1, 1) : id \in UserUids}

\* The grants of a friend, and a grant that the channel refuses.
GrantOps ==
    {<<EnableRequests, SetRemoteMaxDebt(3)>>, <<SetRemoteMaxDebt(MAX_FUNDER_DEBT + 1)>>}

NextFunder ==
    \/ \E f \in Friends : AddFriend(f)
    \/ \E f \in Friends : SetFriendRemoteMaxDebt(f, 3)
    \/ \E f \in Friends : \E ops \in GrantOps : ReceiveGrants(f, ops)
    \/ \E f \in Friends : \E r \in ForwardedRequests(f) : ReceiveRequest(f, r)
    \/ CreatePayment
    \/ \E f \in Friends : \E r \in UserRequests(f) : CreateTransaction(f, r)
    \/ \E f \in Friends : SendPending(f)
    \/ \E f \in Friends : FriendOffline(f)
    \/ \E f \in Friends : RemoveFriend(f)
    \/ \E f \in Friends : \E t \in RemoteResetTerms : ReceiveInconsistencyError(f, t)
    \/ \E f \in Friends : ResetFriendChannel(f)

SpecFunder == InitFunder /\ [][NextFunder]_vars


----------------------------------------------------------------------------
(* The payments of a buyer: every state a payment with open transactions   *)
(* can be in, and the closing of its transactions one by one.              *)

PaymentKinds == {"NewTransactions", "InProgress", "Success", "AfterSuccessAck"}

\* The ids of the transactions of the payment.
PaymentUids == {1, 2, 3}

\* A payment of kind `kind` whose open transactions are `uids`.
FunderWithPayment(kind, uids) ==
    [FunderStateNew EXCEPT
        !.open_transactions = [id \in uids |-> [payment_id |-> PaymentId]],
        !.payments = MapInsert(EmptyMap, PaymentId,
                               Payment(kind, Cardinality(uids), 0))]

InitPayment ==
    /\ tc = [p \in Peers |-> MutualCreditNew(p, Remote(p), 0)]
    /\ direction = [p \in Peers |-> [kind |-> "Incoming"]]
    /\ new_token = [p \in Peers |-> <<"sha", 0>>]
    /\ ev = NoEvent
    /\ steps = 0
    /\ \E kind \in PaymentKinds : \E uids \in SUBSET PaymentUids :
          funder = FunderWithPayment(kind, uids)
    /\ outgoing_control = <<>>
    /\ compact = CompactServerNew({})
    /\ liveness = LivenessNew

\* The open transaction `request_id` is closed.
CloseTransaction(request_id, ack_uid) ==
    /\ ~funder.panicked
    /\ request_id \in DOMAIN funder.open_transactions
    /\ funder' = remove_transaction(funder, ack_uid, request_id)
    /\ ev' = Event("close_transaction", PkA, <<request_id>>, None, "", Ok, 0, <<>>)
    /\ steps' = steps + 1
    /\ UNCHANGED <<tc, direction, new_token, outgoing_control, compact, liveness>>

NextPayment ==
    \E request_id \in PaymentUids : \E ack_uid \in AckUids :
        CloseTransaction(request_id, ack_uid)

SpecPayment == InitPayment /\ [][NextPayment]_vars

----------------------------------------------------------------------------
(* Verification of commits and receipts (components/signature/verify.rs).  *)
(* The verifiers are pure: they are applied to inputs drawn from the sets  *)
(* below.  The seller is PkB.                                              *)

Currency == <<"F", "S", "T">>

\* Currency::canonical_serialize: the bytes of the name, length-prefixed.
canonical_serialize_currency(currency) == <<Len(currency)>> \o currency

InvoiceId == 3

Commit(response_hash, dest_payment, src_plain_lock, dest_hashed_lock, signature) ==
    [response_hash |-> response_hash,
     dest_payment |-> dest_payment,
     src_plain_lock |-> src_plain_lock,
     dest_hashed_lock |-> dest_hashed_lock,
     signature |-> signature]

MultiCommit(invoice_id, currency, total_dest_payment, commits) ==
    [invoice_id |-> invoice_id,
     currency |-> currency,
     total_dest_payment |-> total_dest_payment,
     commits |-> commits]

\* The data whose signature verify_commit checks.
commit_data(commit, invoice_id, currency, total_dest_payment) ==
    <<"FUND_RESPONSE",
      commit.response_hash,
      HashLock(commit.src_plain_lock),
      commit.dest_hashed_lock,
      commit.dest_payment,
      total_dest_payment,
      invoice_id,
      canonical_serialize_currency(currency)>>

\* Verify that a given Commit signature is valid.
verify_commit(commit, invoice_id, currency, total_dest_payment, local_public_key) ==
    verify_signature(commit_data(commit, invoice_id, currency, total_dest_payment),
                     local_public_key, commit.signature)

\* The sum of the payments of the commits from index i on, added to
\* sum_credits with checked_add: None on overflow.
RECURSIVE SumCreditsFrom(_, _, _)
SumCreditsFrom(commits, i, sum_credits) ==
    IF i > Len(commits) THEN Some(sum_credits)
    ELSE LET next == checked_add(sum_credits, commits[i].dest_payment)
         IN  IF ~next.some THEN None ELSE SumCreditsFrom(commits, i + 1, next.v)

\* A verifier that does not look at the payments.
verify_multi_commit_signatures_only(multi_commit, local_public_key) ==
    \A i \in DOMAIN multi_commit.commits :
        verify_commit(multi_commit.commits[i], multi_commit.invoice_id,
                      multi_commit.currency, multi_commit.total_dest_payment,
                      local_public_key)

\* Verify that all the Commit-s inside a MultiCommit are valid.
verify_multi_commit(multi_commit, local_public_key) ==
    LET is_sig_valid ==
            \A i \in DOMAIN multi_commit.commits :
                verify_commit(multi_commit.commits[i], multi_commit.invoice_id,
                              multi_commit.currency, multi_commit.total_dest_payment,
                              local_public_key)
        sum_credits == SumCreditsFrom(multi_commit.commits, 1, 0)
    IN  IF ~is_sig_valid THEN FALSE
        ELSE IF ~sum_credits.some THEN FALSE
        ELSE sum_credits.v = multi_commit.total_dest_payment

\* The payments of a commit, and the totals of a MultiCommit.
CommitPayments == {0, 1, 2, U128_MAX}

CommitTotals == {0, 1, 3, U128_MAX}

CommitSigners == {PkB, PkC}

\* The commits of a payment of `total`: each signed over its own data.
CommitsOf(total) ==
    {LET unsigned == Commit(<<"sha", 1, 5>>, p, SrcPlainLock, HashLock(DestPlainLock),
                            Sign(0, <<>>))
     IN  [unsigned EXCEPT !.signature =
            Sign(k, commit_data(unsigned, InvoiceId, Currency, total))] :
        p \in CommitPayments, k \in CommitSigners}

MultiCommits ==
    UNION {{MultiCommit(InvoiceId, Currency, total, commits) :
                commits \in {<<>>} \cup {<<c>> : c \in CommitsOf(total)}
                              \cup {<<c1, c2>> : c1 \in CommitsOf(total),
                                                 c2 \in CommitsOf(total)}} :
           total \in CommitTotals}

Verdict(b) == IF b THEN "accepted" ELSE "rejected"

InitVerify ==
    /\ tc = [p \in Peers |-> MutualCreditNew(p, Remote(p), 0)]
    /\ direction = [p \in Peers |-> [kind |-> "Incoming"]]
    /\ new_token = [p \in Peers |-> <<"sha", 0>>]
    /\ ev = NoEvent
    /\ steps = 0
    /\ funder = FunderStateNew
    /\ outgoing_control = <<>>
    /\ compact = CompactServerNew({})
    /\ liveness = LivenessNew

\* The seller verifies a MultiCommit.
VerifyMultiCommit(multi_commit) ==
    /\ ev' = Event("verify_multi_commit", PkB, <<>>, Some(multi_commit),
                   Verdict(verify_multi_commit(multi_commit, PkB)), Ok, 0, <<>>)
    /\ UNCHANGED <<tc, direction, new_token, steps, funder, outgoing_control, compact, liveness>>


Receipt(response_hash, invoice_id, currency, src_plain_lock, dest_plain_lock, dest_payment, total_dest_payment, signature) ==
    [response_hash |-> response_hash,
     invoice_id |-> invoice_id,
     currency |-> currency,
     src_plain_lock |-> src_plain_lock,
     dest_plain_lock |-> dest_plain_lock,
     dest_payment |-> dest_payment,
     total_dest_payment |-> total_dest_payment,
     signature |-> signature]

\* Verify that a given receipt's signature is valid.
verify_receipt(receipt, public_key) ==
    LET data == <<"FUND_RESPONSE",
                  receipt.response_hash,
                  HashLock(receipt.src_plain_lock),
                  HashLock(receipt.dest_plain_lock),
                  receipt.dest_payment,
                  receipt.total_dest_payment,
                  receipt.invoice_id,
                  canonical_serialize_currency(receipt.currency)>>
    IN  verify_signature(data, public_key, receipt.signature)

\* The response to a pending transaction, signed by public_key over
\* create_response_signature_buffer.
create_response_send_funds(pending_transaction, dest_hashed_lock, rand_nonce, public_key) ==
    LET u_response_send_funds ==
            ResponseSendFunds(pending_transaction.request_id, dest_hashed_lock,
                              rand_nonce, Sign(0, <<>>))
        signature_buff ==
            create_response_signature_buffer(u_response_send_funds, pending_transaction)
    IN  [u_response_send_funds EXCEPT !.signature = Sign(public_key, signature_buff)]

\* The receipt the buyer assembles from the response to its transaction and
\* the two plain locks.
prepare_receipt(response_send_funds, pending_transaction, currency, src_plain_lock, dest_plain_lock) ==
    Receipt(<<"sha", response_send_funds.request_id, response_send_funds.rand_nonce>>,
            pending_transaction.invoice_id,
            currency,
            src_plain_lock,
            dest_plain_lock,
            pending_transaction.dest_payment,
            pending_transaction.total_dest_payment,
            response_send_funds.signature)

\* The buyer's pending transactions towards the seller.
ReceiptPendings ==
    {[create_pending_transaction(RequestSendFunds(id, SrcPlainLock, <<PkA, PkB>>, p, 0, 0))
        EXCEPT !.total_dest_payment = t, !.invoice_id = InvoiceId] :
        id \in {1, 2}, p \in {1, 2}, t \in {2, 3}}

ReceiptNonces == {5, 6}

ReceiptLocks == {SrcPlainLock, DestPlainLock}

\* The receipt of `pending`, assembled from the response signed by `signer`.
ReceiptOf(pending, rand_nonce, signer, src_plain_lock, dest_plain_lock) ==
    prepare_receipt(
        create_response_send_funds(pending, HashLock(DestPlainLock), rand_nonce, signer),
        pending, Currency, src_plain_lock, dest_plain_lock)

\* The receipts assembled from the seller's response with the matching locks.
HonestReceipts ==
    {ReceiptOf(pending, n, PkB, SrcPlainLock, DestPlainLock) :
        pending \in ReceiptPendings, n \in ReceiptNonces}

\* A receipt is assembled, perhaps with another total, and verified under the
\* seller's public key.
VerifyReceipt(pending, rand_nonce, signer, src_plain_lock, dest_plain_lock, total) ==
    LET assembled == ReceiptOf(pending, rand_nonce, signer, src_plain_lock, dest_plain_lock)
        receipt == [assembled EXCEPT !.total_dest_payment = total]
    IN  /\ ev' = Event("verify_receipt", PkB, <<>>, Some(receipt),
                       Verdict(verify_receipt(receipt, PkB)), Ok, 0, <<>>)
        /\ UNCHANGED <<tc, direction, new_token, steps, funder, outgoing_control, compact, liveness>>

NextVerify ==
    \/ \E multi_commit \in MultiCommits : VerifyMultiCommit(multi_commit)
    \/ \E pending \in ReceiptPendings : \E rand_nonce \in ReceiptNonces :
       \E signer \in CommitSigners : \E sp \in ReceiptLocks : \E dp \in ReceiptLocks :
       \E total \in {pending.total_dest_payment, pending.total_dest_payment + 1} :
          VerifyReceipt(pending, rand_nonce, signer, sp, dp, total)

SpecVerify == InitVerify /\ [][NextVerify]_vars

----------------------------------------------------------------------------
(* Routes and rates of the funder messages (proto/funder/messages.rs):     *)
(* is_route_valid and Rate::calc_fee are pure, and are applied to inputs   *)
(* drawn from the sets below.                                              *)

\* The route 1 -- 2 -- ... -- n.
Straight(n) == [i \in 1..n |-> i]

\* The cycle 1 -- 2 -- ... -- 1 of n nodes.
Cycle(n) == [i \in 1..n |-> IF i = n THEN 1 ELSE i]

\* Every route of at most 4 nodes over three keys.
ShortRoutes == UNION {[1..n -> {1, 2, 3}] : n \in 0..4}

\* Routes around the longest one, without and with a repeated key.
LongRoutes ==
    UNION {{Straight(n), Cycle(n),
            [Straight(n) EXCEPT ![5] = 2],
            [Cycle(n) EXCEPT ![5] = 3],
            [Cycle(n) EXCEPT ![n - 1] = 1]} :
           n \in (MAX_ROUTE_LEN - 1)..(MAX_ROUTE_LEN + 1)}

RouteInputs == ShortRoutes \cup LongRoutes

\* The number of bits of the fields of a Rate.
RateBits == 3

U32_MAX == Pow2(RateBits) - 1

\* A rate, when mul and add fit its fields.
RateNew(mul, add) ==
    IF mul \in 0..U32_MAX /\ add \in 0..U32_MAX
    THEN Some([mul |-> mul, add |-> add]) ELSE None

\* n >> k
RECURSIVE ShiftRight(_, _)
ShiftRight(n, k) == IF k = 0 THEN n ELSE ShiftRight(n \div 2, k - 1)

\* A fee that leaves out the flat rate.
calc_fee_without_add(rate, dest_payment) ==
    LET mul_res == ShiftRight(dest_payment * rate.mul, RateBits)
    IN  IF mul_res <= U128_MAX THEN Some(mul_res) ELSE None

\* Calculate the amount of additional fee credits we have to pay if we want
\* to pay dest_payment credits.
calc_fee(rate, dest_payment) ==
    LET mul_res == ShiftRight(dest_payment * rate.mul, RateBits)
        res == mul_res + rate.add
    IN  IF res <= U128_MAX THEN Some(res) ELSE None

\* Maximum amount of credits we should be able to pay through a given
\* capacity: ((c - n) * 2^32) / (m0 + 2^32), and 0 when c < n.
max_payable(rate, capacity) ==
    LET long_add == rate.add
        c_minus_n == checked_sub(capacity, long_add)
        numerator == c_minus_n.v * Pow2(RateBits)
        denominator == rate.mul + Pow2(RateBits)
    IN  IF ~c_minus_n.some THEN 0 ELSE numerator \div denominator

RateMuls == 0..(U32_MAX + 1)

RateAdds == {0, 1, U32_MAX, U32_MAX + 1}

InitProto ==
    /\ tc = [p \in Peers |-> MutualCreditNew(p, Remote(p), 0)]
    /\ direction = [p \in Peers |-> [kind |-> "Incoming"]]
    /\ new_token = [p \in Peers |-> <<"sha", 0>>]
    /\ ev = NoEvent
    /\ steps = 0
    /\ funder = FunderStateNew
    /\ outgoing_control = <<>>
    /\ compact = CompactServerNew({})
    /\ liveness = LivenessNew

\* A route is checked.
IsRouteValid(route) ==
    /\ ev' = Event("is_route_valid", PkA, <<>>, Some(route),
                   Verdict(is_route_valid(route)), Ok, 0, <<>>)
    /\ UNCHANGED <<tc, direction, new_token, steps, funder, outgoing_control, compact, liveness>>

\* The fee of dest_payment is asked of the rate (mul, add); there is no fee
\* when no Rate holds these numbers.
CalcFee(mul, add, dest_payment) ==
    LET rate == RateNew(mul, add)
        fee == IF rate.some THEN calc_fee(rate.v, dest_payment) ELSE None
    IN  /\ ev' = Event("calc_fee", PkA, <<mul, add, dest_payment>>, fee,
                       "", Ok, 0, <<>>)
        /\ UNCHANGED <<tc, direction, new_token, steps, funder, outgoing_control, compact, liveness>>

\* The rate (mul, add) is asked how much can be paid through a capacity.
MaxPayable(mul, add, capacity) ==
    /\ RateNew(mul, add).some
    /\ ev' = Event("max_payable", PkA, <<mul, add, capacity>>,
                   Some(max_payable(RateNew(mul, add).v, capacity)), "", Ok, 0, <<>>)
    /\ UNCHANGED <<tc, direction, new_token, steps, funder, outgoing_control, compact, liveness>>

NextProto ==
    \/ \E route \in RouteInputs : IsRouteValid(route)
    \/ \E mul \in RateMuls : \E add \in RateAdds : \E dest_payment \in 0..U128_MAX :
          CalcFee(mul, add, dest_payment)
    \/ \E mul \in RateMuls : \E add \in RateAdds : \E capacity \in 0..U128_MAX :
          MaxPayable(mul, add, capacity)

SpecProto == InitProto /\ [][NextProto]_vars

----------------------------------------------------------------------------
(* The liveness of the friends (funder/src/liveness.rs)                     *)

SetOnline(public_key) == Mut("SetOnline", public_key)

SetOffline(public_key) == Mut("SetOffline", public_key)

\* A mutation whose SetOffline forgets every friend.
liveness_mutate_clearing(l, mutation) ==
    CASE mutation.type = "SetOnline" ->
            [l EXCEPT !.friends = @ \cup {mutation.arg}]
      [] mutation.type = "SetOffline" -> [l EXCEPT !.friends = {}]

\* Liveness::mutate
liveness_mutate(l, mutation) ==
    CASE mutation.type = "SetOnline" ->
            [l EXCEPT !.friends = @ \cup {mutation.arg}]
      [] mutation.type = "SetOffline" ->
            [l EXCEPT !.friends = @ \ {mutation.arg}]

is_online(l, friend_public_key) == friend_public_key \in l.friends

\* The keys the mutations name.
LivenessKeys == {PkA, PkB, PkC}

LivenessMutations ==
    {SetOnline(pk) : pk \in LivenessKeys} \cup {SetOffline(pk) : pk \in LivenessKeys}

\* A mutation is applied; the event keeps the mutations applied so far.
LivenessMutate(mutation) ==
    /\ steps < MaxSteps
    /\ liveness' = liveness_mutate(liveness, mutation)
    /\ ev' = Event("liveness_mutate", mutation.arg, <<mutation>>, None, "", Ok, 0,
                   Append(ev.mutations, mutation))
    /\ steps' = steps + 1
    /\ UNCHANGED <<tc, direction, new_token, funder, outgoing_control, compact>>

NextLiveness == \E mutation \in LivenessMutations : LivenessMutate(mutation)

SpecLiveness == InitProto /\ [][NextLiveness]_vars

----------------------------------------------------------------------------
(* The credits of a request of the networker                                *)
(* (networker/messenger/credit_calculator.rs): u64 amounts, u32 lengths.    *)

\* A u64 has twice the bits of a u32.
U64_MAX == Pow2(2 * RateBits) - 1

u64_checked_add(a, b) ==
    IF ~a.some \/ ~b.some \/ a.v + b.v > U64_MAX THEN None ELSE Some(a.v + b.v)

u64_checked_sub(a, b) ==
    IF ~a.some \/ ~b.some \/ a.v - b.v < 0 THEN None ELSE Some(a.v - b.v)

u64_checked_mul(a, b) ==
    IF ~a.some \/ ~b.some \/ a.v * b.v > U64_MAX THEN None ELSE Some(a.v * b.v)

\* processing_fee_proposal + request_len * credits_per_byte_proposal
\*      + (max_response_len - response_len)
credits_on_success_dest(processing_fee_proposal, request_len, credits_per_byte_proposal, response_len, max_response_len) ==
    u64_checked_add(
        u64_checked_add(Some(processing_fee_proposal),
                        u64_checked_mul(Some(request_len),
                                        Some(credits_per_byte_proposal))),
        u64_checked_sub(Some(max_response_len), Some(response_len)))

\* (request_len + response_len) * credits_per_byte_proposal * nodes_to_dest
\*      + credits_on_success_dest(...)
networker_credits_on_success(processing_fee_proposal, request_len, credits_per_byte_proposal, max_response_len, response_len, nodes_to_dest) ==
    u64_checked_add(
        u64_checked_mul(
            u64_checked_mul(u64_checked_add(Some(request_len), Some(response_len)),
                            Some(credits_per_byte_proposal)),
            Some(nodes_to_dest)),
        credits_on_success_dest(processing_fee_proposal, request_len,
                                credits_per_byte_proposal, response_len,
                                max_response_len))

Min(a, b) == IF a <= b THEN a ELSE b

\* The credits to freeze on a node along the route of a request.
networker_credits_to_freeze(processing_fee_proposal, request_len, credits_per_byte_proposal, max_response_len, nodes_to_dest) ==
    LET credits_resp_len_zero ==
            networker_credits_on_success(processing_fee_proposal, request_len,
                credits_per_byte_proposal, max_response_len, 0, nodes_to_dest)
        credits_resp_len_max ==
            networker_credits_on_success(processing_fee_proposal, request_len,
                credits_per_byte_proposal, max_response_len, max_response_len,
                nodes_to_dest)
    IN  IF ~credits_resp_len_zero.some \/ ~credits_resp_len_max.some THEN None
        ELSE Some(Min(credits_resp_len_zero.v, credits_resp_len_max.v))

\* The requests whose credits are computed.
FeeProposals == {0, 1, U64_MAX}

RequestLens == 0..2

CreditsPerByte == 0..2

ResponseLens == 0..2

NodesToDest == 0..2

\* The credits to freeze for a request, and the credits paid for one of
\* its responses, are computed.
CreditsToFreeze(processing_fee_proposal, request_len, credits_per_byte_proposal, max_response_len, response_len, nodes_to_dest) ==
    /\ response_len <= max_response_len
    /\ ev' = Event("credits_to_freeze", PkA,
                   <<processing_fee_proposal, request_len, credits_per_byte_proposal,
                     max_response_len, response_len, nodes_to_dest>>,
                   networker_credits_to_freeze(processing_fee_proposal, request_len,
                       credits_per_byte_proposal, max_response_len, nodes_to_dest),
                   "", Ok, 0,
                   <<networker_credits_on_success(processing_fee_proposal, request_len,
                       credits_per_byte_proposal, max_response_len, response_len,
                       nodes_to_dest)>>)
    /\ UNCHANGED <<tc, direction, new_token, steps, funder, outgoing_control, compact, liveness>>

NextCredits ==
    \E processing_fee_proposal \in FeeProposals : \E request_len \in RequestLens :
    \E credits_per_byte_proposal \in CreditsPerByte :
    \E max_response_len \in ResponseLens : \E response_len \in ResponseLens :
    \E nodes_to_dest \in NodesToDest :
        CreditsToFreeze(processing_fee_proposal, request_len, credits_per_byte_proposal,
                        max_response_len, response_len, nodes_to_dest)

SpecCredits == InitProto /\ [][NextCredits]_vars

----------------------------------------------------------------------------
(* The compact server (stcompact/server.rs): it mediates between a user    *)
(* and the node, over a connection that was granted a set of permissions.  *)

PermissionKinds == {"routes", "buyer", "seller", "config"}

\* The requests of a user, and the permission each one needs.
CompactRequests == {"RequestRoutes", "CreatePayment", "AddInvoice", "AddFriend"}

required_permission(user_request) ==
    CASE user_request = "RequestRoutes" -> "routes"
      [] user_request = "CreatePayment" -> "buyer"
      [] user_request = "AddInvoice" -> "seller"
      [] user_request = "AddFriend" -> "config"

check_permission(user_request, app_permissions) ==
    required_permission(user_request) \in app_permissions

\* A permitted request of the user is passed to the node.
handle_user(server, user_request) ==
    [server EXCEPT !.app_sender = Append(@, user_request)]

\* A message of the node is passed to the user.
handle_node(server, app_server_to_app) ==
    [server EXCEPT !.user_sender = Append(@, app_server_to_app)]

InitCompact ==
    /\ tc = [p \in Peers |-> MutualCreditNew(p, Remote(p), 0)]
    /\ direction = [p \in Peers |-> [kind |-> "Incoming"]]
    /\ new_token = [p \in Peers |-> <<"sha", 0>>]
    /\ ev = NoEvent
    /\ steps = 0
    /\ funder = FunderStateNew
    /\ outgoing_control = <<>>
    /\ \E app_permissions \in SUBSET PermissionKinds :
          compact = CompactServerNew(app_permissions)
    /\ liveness = LivenessNew

\* One turn of the loop of inner_server_loop.
CompactTurn(kind, request, server) ==
    /\ steps < MaxSteps
    /\ compact.open
    /\ compact' = server
    /\ ev' = Event(kind, PkA, <<request>>, None, "", Ok, 0, <<>>)
    /\ steps' = steps + 1
    /\ UNCHANGED <<tc, direction, new_token, funder, outgoing_control, liveness>>

\* CompactServerEvent::User: a permitted request is handled; a request that
\* is not permitted ends the loop.
CompactUser(user_request) ==
    CompactTurn("compact_user", user_request,
        IF check_permission(user_request, compact.app_permissions)
        THEN handle_user(compact, user_request)
        ELSE [compact EXCEPT !.open = FALSE])

\* CompactServerEvent::UserClosed
CompactUserClosed ==
    CompactTurn("compact_user_closed", "", [compact EXCEPT !.open = FALSE])

\* CompactServerEvent::Node
CompactNode(app_server_to_app) ==
    CompactTurn("compact_node", app_server_to_app,
                handle_node(compact, app_server_to_app))

\* CompactServerEvent::NodeClosed
CompactNodeClosed ==
    CompactTurn("compact_node_closed", "", [compact EXCEPT !.open = FALSE])

NextCompact ==
    \/ \E user_request \in CompactRequests : CompactUser(user_request)
    \/ CompactUserClosed
    \/ \E app_server_to_app \in {"Report", "ReportMutations"} :
          CompactNode(app_server_to_app)
    \/ CompactNodeClosed

SpecCompact == InitCompact /\ [][NextCompact]_vars

----------------------------------------------------------------------------
(* Units created from a reset whose balance is close to the ends of i128   *)
(* (MutualCredit::new takes any i128), driven as in SpecMc.                *)

WideResetBalances == {I128_MIN + 1, I128_MAX - 1, I128_MAX}

InitMcWide ==
    /\ \E b \in WideResetBalances :
          tc = [p \in Peers |->
                  MutualCreditNew(p, Remote(p), IF p = PkA THEN b ELSE 0 - b)]
    /\ direction = [p \in Peers |-> [kind |-> "Incoming"]]
    /\ new_token = [p \in Peers |-> <<"sha", 0>>]
    /\ ev = NoEvent
    /\ steps = 0
    /\ funder = FunderStateNew
    /\ outgoing_control = <<>>
    /\ compact = CompactServerNew({})
    /\ liveness = LivenessNew

SpecMcWide == InitMcWide /\ [][NextMc]_vars

----------------------------------------------------------------------------
(* Payments of this node as a buyer and as a relay: requests enter the     *)
(* channels, the friends answer with cancel, response and collect, and the *)
(* application closes the payment.                                         *)

BackwardsOpResponse(response_send_funds) ==
    [kind |-> "Response", op |-> response_send_funds]

BackwardsOpCollect(collect_send_funds) ==
    [kind |-> "Collect", op |-> collect_send_funds]

PaymentStatus(kind, ack_uid) == [kind |-> kind, ack_uid |-> ack_uid]

ResponseClosePayment(payment_id, status) ==
    [type |-> "ResponseClosePayment", payment_id |-> payment_id, status |-> status]

\* RequestClosePayment: no transaction may be added to the payment any more,
\* and the status of the payment is reported.
request_close_payment(c, ack_uid, payment_id) ==
    LET report(st, status) ==
            Ctx(st, Append(c.outgoing_control, ResponseClosePayment(payment_id, status)))
        update(new_payment) ==
            funder_mutate(c.state, Mut("UpdatePayment", <<payment_id, new_payment>>))
    IN  IF payment_id \notin DOMAIN c.state.payments
        THEN report(c.state, PaymentStatus("PaymentNotFound", 0))
        ELSE LET payment == c.state.payments[payment_id]
             IN  IF payment.kind = "NewTransactions"
                 THEN IF payment.num_transactions > 0
                      THEN report(update(Payment("InProgress", payment.num_transactions, 0)),
                                  PaymentStatus("InProgress", 0))
                      ELSE report(update(Payment("Canceled", 0, ack_uid)),
                                  PaymentStatus("Canceled", ack_uid))
                 ELSE IF payment.kind = "InProgress"
                 THEN report(c.state, PaymentStatus("InProgress", 0))
                 ELSE IF payment.kind = "Success"
                 THEN report(c.state, PaymentStatus("Success", payment.ack_uid))
                 ELSE IF payment.kind = "Canceled"
                 THEN report(c.state, PaymentStatus("Canceled", payment.ack_uid))
                 ELSE report(c.state, PaymentStatus("PaymentNotFound", 0))

\* The collect of a transaction of this node arrived: the payment is a
\* success and the transaction is closed.
collect_transaction(st, request_id) ==
    IF st.panicked THEN st
    ELSE IF request_id \notin DOMAIN st.open_transactions THEN Panicked(st)
    ELSE LET payment_id == st.open_transactions[request_id].payment_id
             payment == st.payments[payment_id]
             removed == funder_mutate(st, Mut("RemoveTransaction", request_id))
             left == checked_sub(payment.num_transactions, 1)
         IN  IF payment.kind = "Canceled" \/ ~left.some THEN Panicked(removed)
             ELSE IF payment.kind = "AfterSuccessAck"
                THEN IF left.v > 0
                     THEN funder_mutate(removed,
                            Mut("UpdatePayment",
                                <<payment_id, Payment("AfterSuccessAck", left.v, 0)>>))
                     ELSE funder_mutate(removed, Mut("RemovePayment", payment_id))
             ELSE funder_mutate(removed,
                    Mut("UpdatePayment",
                        <<payment_id,
                          Payment("Success", left.v,
                                  IF payment.kind = "Success" THEN payment.ack_uid
                                  ELSE request_id)>>))

\* A handler of one operation ends.
HandledOp(kind, peer, op, c) ==
    /\ steps < MaxFunderSteps
    /\ ~funder.panicked
    /\ funder' = c.state
    /\ outgoing_control' = c.outgoing_control
    /\ ev' = Event(kind, peer, <<op>>, None, "", Ok, 0, <<>>)
    /\ steps' = steps + 1
    /\ UNCHANGED <<tc, direction, new_token, compact, liveness>>

\* The ids of the requests of this model.
PayUids == ForwardUids \cup UserUids

\* The friend f sends operation op about a request that went through its
\* channel; `done` is what this node does when the channel accepts it.
ReceiveBackwards(kind, f, op, done(_)) ==
    /\ HasConsistent(funder, f)
    /\ LET r == simulate_process_operations_list(UnitOf(funder.friends[f]), <<op>>)
           processed == apply_tc_mutations(funder, f, Flatten(r.outputs))
       IN  \E ack_uid \in AckUids : \E order \in Orders(LocalPending(funder, f)) :
              HandledOp(kind, f, op,
                  IF r.err # Ok
                  THEN enter_inconsistent(Ctx(funder, <<>>), ack_uid, order, f,
                                          NoResetTerms)
                  ELSE done(processed))

\* The friend f cancels a request: the cancel goes on to the friend the
\* request came from, or the transaction of this node fails.
ReceiveCancel(f, request_id) ==
    /\ f \in DOMAIN funder.friends
    /\ \E ack_uid \in AckUids :
        LET done(processed) == cancel_request(Ctx(processed, <<>>), ack_uid, request_id)
        IN  ReceiveBackwards("receive_cancel", f, CancelSendFunds(request_id), done)

\* The response of the friend f to the request, signed by f; to a request
\* that is not in the channel, a response without signature.
ResponseOf(f, request_id) ==
    IF request_id \in DOMAIN LocalPending(funder, f)
    THEN create_response_send_funds(LocalPending(funder, f)[request_id],
                                    HashLock(DestPlainLock), 5, f)
    ELSE ResponseSendFunds(request_id, HashLock(DestPlainLock), 5, Sign(0, <<>>))

\* The friend f answers a request: the response goes on to the friend the
\* request came from, or the application gets the commit of its transaction.
ReceiveResponse(f, request_id) ==
    /\ f \in DOMAIN funder.friends
    /\ LET response == ResponseOf(f, request_id)
           origin(st) == find_request_origin(st, request_id)
           done(processed) ==
               IF origin(processed).some
               THEN Ctx(funder_mutate(processed,
                           FriendMutation(origin(processed).v,
                               Mut("PushBackPendingBackwardsOp",
                                   BackwardsOpResponse(response)))), <<>>)
               ELSE Ctx(processed, <<TransactionResult(request_id, "Success")>>)
       IN  ReceiveBackwards("receive_response", f, response, done)

\* The friend f collects a request: the collect goes on to the friend the
\* request came from, or the payment of this node is a success.
ReceiveCollect(f, request_id) ==
    /\ f \in DOMAIN funder.friends
    /\ LET collect == CollectSendFunds(request_id, SrcPlainLock, DestPlainLock)
           origin(st) == find_request_origin(st, request_id)
           done(processed) ==
               IF origin(processed).some
               THEN Ctx(funder_mutate(processed,
                           FriendMutation(origin(processed).v,
                               Mut("PushBackPendingBackwardsOp",
                                   BackwardsOpCollect(collect)))), <<>>)
               ELSE Ctx(collect_transaction(processed, request_id), <<>>)
       IN  ReceiveBackwards("receive_collect", f, collect, done)

\* The first backwards operation queued for the friend f enters the channel.
SendBackwardsOp(f) ==
    /\ HasConsistent(funder, f)
    /\ funder.friends[f].channel_status.pending_backwards_ops # <<>>
    /\ LET backwards_op == Head(funder.friends[f].channel_status.pending_backwards_ops)
           popped == funder_mutate(funder,
                        FriendMutation(f, Mut("PopFrontPendingBackwardsOp", 0)))
           r == queue_operation(UnitOf(funder.friends[f]), backwards_op.op)
       IN  HandledOp("send_backwards", f, backwards_op.op,
                     IF r.err = Ok
                     THEN Ctx(apply_tc_mutations(popped, f, r.tc_mutations), <<>>)
                     ELSE Ctx(popped, <<>>))

\* The application closes the payment.
RequestClosePayment ==
    /\ ~funder.panicked
    /\ \E ack_uid \in AckUids :
        Handled("request_close_payment", PkA,
                request_close_payment(Ctx(funder, <<>>), ack_uid, PaymentId))

\* Requests of the user that reserve more than a friend grants.
LargeUserRequests(f) ==
    {RequestSendFunds(id, SrcPlainLock, <<PkA, f>>, 3, 1, 1) : id \in UserUids}

NextPay ==
    \/ \E f \in Friends : AddFriend(f)
    \/ \E f \in Friends : SetFriendRemoteMaxDebt(f, 3)
    \/ \E f \in Friends : \E ops \in GrantOps : ReceiveGrants(f, ops)
    \/ \E f \in Friends : \E r \in ForwardedRequests(f) : ReceiveRequest(f, r)
    \/ CreatePayment
    \/ \E f \in Friends : \E r \in UserRequests(f) \cup LargeUserRequests(f) :
          CreateTransaction(f, r)
    \/ \E f \in Friends : SendPending(f)
    \/ \E f \in Friends : SendBackwardsOp(f)
    \/ \E f \in Friends : \E request_id \in PayUids : ReceiveCancel(f, request_id)
    \/ \E f \in Friends : \E request_id \in PayUids : ReceiveResponse(f, request_id)
    \/ \E f \in Friends : \E request_id \in PayUids : ReceiveCollect(f, request_id)
    \/ RequestClosePayment
    \/ \E f \in Friends : FriendOffline(f)

SpecPay == InitFunder /\ [][NextPay]_vars

\* The sender runs after every handled message and drains the queues of
\* every friend: a queued request is not left waiting forever.
SpecPayLive == SpecPay /\ \A f \in Friends : WF_vars(SendPending(f))

----------------------------------------------------------------------------
(* Properties *)

Bal(p) == tc[p].balance

\* The two debt bounds of a unit.
DebtBounds(s) ==
    /\ 0 - s.balance.local_max_debt
            <= s.balance.balance - s.balance.local_pending_debt
    /\ s.balance.balance + s.balance.remote_pending_debt
            <= s.balance.remote_max_debt

\* C1: in every state of a unit, from its creation (also from a reset with a
\* non-zero balance) and after every applied operation, both
\* -local_max_debt <= balance - local_pending_debt and
\* balance + remote_pending_debt <= remote_max_debt hold.
C1_DebtBoundsHold == \A p \in McPeers : DebtBounds(tc[p])

Mirrored == Bal(PkA).balance = 0 - Bal(PkB).balance

\* C2: a completed exchange (the sender queued the operations, the receiver
\* processed them all) that starts with A.balance = -B.balance ends with
\* A.balance = -B.balance.
C2_MirroredBalances ==
    [][(Mirrored /\ ev'.kind = "exchange" /\ ev'.err = Ok) => Mirrored']_vars

\* A completed exchange between two units reset to the balances 2 and -2.
C2_Witness ==
    /\ ev.kind = "exchange" /\ ev.err = Ok
    /\ Bal(PkA).balance # 0
    /\ Mirrored

\* The state after the handlers of the operations ran one after the other.
RECURSIVE SeqApply(_, _)
SeqApply(s, ops) ==
    IF ops = <<>> THEN s
    ELSE SeqApply(process_operation(s, Head(ops)).tc, Tail(ops))

\* The index of the first operation whose handler fails when the handlers run
\* one after the other from s; 0 when none fails.
RECURSIVE FirstFailure(_, _, _)
FirstFailure(s, ops, i) ==
    IF i > Len(ops) THEN 0
    ELSE LET r == process_operation(s, ops[i])
         IN  IF r.err # Ok THEN i ELSE FirstFailure(r.tc, ops, i + 1)

\* C3: the operation list of an incoming message is processed all or nothing
\* and in the listed order: when every handler succeeds, run one after the
\* other, the unit ends in the state the last handler left; when one fails,
\* the failure names the first failing operation and the unit is unchanged.
C3_AllOrNothing ==
    [][ev'.kind = "incoming" =>
        LET p == ev'.peer
            failed == FirstFailure(tc[p], ev'.ops, 1)
        IN  /\ (ev'.err = Ok) <=> (failed = 0)
            /\ ev'.err = Ok => tc' = [tc EXCEPT ![p] = SeqApply(tc[p], ev'.ops)]
            /\ ev'.err # Ok => (tc' = tc /\ ev'.index = failed)]_vars

\* A list of two operations whose second operation failed after the first
\* succeeded.
C3_Witness ==
    /\ ev.kind = "incoming"
    /\ Len(ev.ops) = 2
    /\ ev.err # Ok
    /\ ev.index = 2

BothOutgoing == \A p \in Peers : direction[p].kind = "Outgoing"

BothIncoming == \A p \in Peers : direction[p].kind = "Incoming"

\* C4 (as stated): at most one of the two honest peers believes the direction
\* is Outgoing at any time.
C4_AtMostOneOutgoing == ~BothOutgoing

\* C4 (amended): at most one of the two honest peers believes the direction is
\* Incoming at any time; both believe Outgoing while a move token is in flight.
C4_AtMostOneIncoming == ~BothIncoming

\* A move token of the second sender is in flight: both directions are
\* Outgoing.
C4_Witness == BothOutgoing /\ ev.kind = "send" /\ ev.result = "Sent"

\* C5: a received move token equal to the last accepted one (its new_token is
\* the token of the receiver, whose direction is Incoming) is classified as a
\* duplicate; a duplicate has none of its operations processed and leaves the
\* direction, the token and the unit unchanged.
C5_DuplicateIsNoOp ==
    [][ev'.kind = "receive" =>
        LET q == ev'.peer
            m == ev'.msg.v
        IN  /\ (direction[q].kind = "Incoming" /\ m = MsgOfToken(new_token[q]))
                    => ev'.result = "Duplicate"
            /\ ev'.result = "Duplicate"
                    => (/\ ev'.mutations = <<>>
                        /\ UNCHANGED <<tc, direction, new_token, compact, liveness>>)]_vars

\* The second delivery of an accepted move token that carries operations.
C5_Witness ==
    /\ ev.kind = "receive"
    /\ ev.result = "Duplicate"
    /\ ev.ops # <<>>
    /\ tc[ev.peer].requests_status.remote = "Open"


\* The event of the step is p handling the single operation of the given type.
Single(e, kind, type) ==
    /\ e.kind = kind
    /\ Len(e.ops) = 1
    /\ e.ops[1].type = type

\* C6: a successfully queued outgoing RequestSendFunds increases the sender's
\* local_pending_debt by exactly dest_payment + left_fees and adds a pending
\* local transaction, with the fields of the request, in stage Request; the
\* balance, the max debts, the remote pending debt, the remote pending
\* transactions and the requests status are unchanged.
C6_RequestReserves ==
    [][(Single(ev', "outgoing", "RequestSendFunds") /\ ev'.err = Ok) =>
        LET p == ev'.peer
            op == ev'.ops[1]
            s == tc[p]
            t == tc'[p]
        IN  /\ t.balance = [s.balance EXCEPT !.local_pending_debt =
                                @ + op.dest_payment + op.left_fees]
            /\ op.request_id \notin DOMAIN s.pending_transactions.local
            /\ DOMAIN t.pending_transactions.local
                    = DOMAIN s.pending_transactions.local \cup {op.request_id}
            /\ \A id \in DOMAIN s.pending_transactions.local :
                    t.pending_transactions.local[id] = s.pending_transactions.local[id]
            /\ LET pending == t.pending_transactions.local[op.request_id]
               IN  /\ pending.stage.kind = "Request"
                   /\ pending.request_id = op.request_id
                   /\ pending.route = op.route
                   /\ pending.dest_payment = op.dest_payment
                   /\ pending.left_fees = op.left_fees
                   /\ pending.src_hashed_lock = op.src_hashed_lock
            /\ t.pending_transactions.remote = s.pending_transactions.remote
            /\ t.requests_status = s.requests_status
            /\ t.idents = s.idents]_vars

\* A request was queued: the credits are reserved and the transaction pends.
C6_Witness ==
    /\ Single(ev, "outgoing", "RequestSendFunds")
    /\ ev.err = Ok
    /\ Bal(ev.peer).local_pending_debt > 0
    /\ ev.ops[1].request_id \in DOMAIN tc[ev.peer].pending_transactions.local

\* C7: a valid incoming ResponseSendFunds only advances the stage of the
\* pending local transaction to Response(dest_hashed_lock): the transaction
\* stays pending, and the balance and the pending debts are unchanged.
C7_ResponseOnlyAdvancesStage ==
    [][(Single(ev', "incoming", "ResponseSendFunds") /\ ev'.err = Ok) =>
        LET p == ev'.peer
            op == ev'.ops[1]
        IN  tc' = [tc EXCEPT ![p].pending_transactions.local[op.request_id].stage =
                        StageResponse(op.dest_hashed_lock)]]_vars

\* The incoming collect closes the transaction whose response was just
\* accepted, with the plain locks of that transaction.
CollectOfResponded(e, collect) ==
    /\ Single(e, "incoming", "ResponseSendFunds")
    /\ e.err = Ok
    /\ e.ops[1].request_id = collect.request_id
    /\ e.ops[1].dest_hashed_lock = HashLock(collect.dest_plain_lock)
    /\ collect.src_plain_lock = SrcPlainLock

\* C8: the incoming Collect of a transaction that we requested and whose
\* response we accepted succeeds: it decreases our balance by
\* dest_payment + left_fees, decreases local_pending_debt by the same amount
\* and removes the pending transaction.
C8_CollectSettles ==
    [][(Single(ev', "incoming", "CollectSendFunds")
            /\ CollectOfResponded(ev, ev'.ops[1])) =>
        LET p == ev'.peer
            id == ev'.ops[1].request_id
            s == tc[p]
            t == tc'[p]
        IN  /\ ev'.err = Ok
            /\ id \in DOMAIN s.pending_transactions.local
            /\ LET amount == s.pending_transactions.local[id].dest_payment
                                + s.pending_transactions.local[id].left_fees
               IN  /\ t.balance.balance = s.balance.balance - amount
                   /\ t.balance.local_pending_debt
                        = s.balance.local_pending_debt - amount
            /\ id \notin DOMAIN t.pending_transactions.local]_vars

\* C9: an incoming Cancel of a pending local transaction (in stage Request or
\* Response) removes the transaction and decreases local_pending_debt by
\* dest_payment + left_fees; the balance, the max debts and everything else
\* are unchanged.
C9_CancelReleases ==
    [][(Single(ev', "incoming", "CancelSendFunds") /\ ev'.err = Ok) =>
        LET p == ev'.peer
            id == ev'.ops[1].request_id
            s == tc[p]
            t == tc'[p]
        IN  /\ id \in DOMAIN s.pending_transactions.local
            /\ LET pending == s.pending_transactions.local[id]
               IN  /\ pending.stage.kind \in {"Request", "Response"}
                   /\ t.balance = [s.balance EXCEPT !.local_pending_debt =
                                        @ - (pending.dest_payment + pending.left_fees)]
            /\ DOMAIN t.pending_transactions.local
                    = DOMAIN s.pending_transactions.local \ {id}
            /\ t.pending_transactions.remote = s.pending_transactions.remote
            /\ t.requests_status = s.requests_status]_vars

\* A pending request was cancelled: its reservation is released.
C9_Witness ==
    /\ Single(ev, "incoming", "CancelSendFunds")
    /\ ev.err = Ok
    /\ ev.ops[1].request_id \notin DOMAIN tc[ev.peer].pending_transactions.local
    /\ Bal(ev.peer).local_pending_debt = 0
    /\ Bal(ev.peer).local_max_debt > 0

\* The transaction of the collect pends in stage Response and both plain locks
\* hash to its hashed locks.
Collectable(s, collect) ==
    /\ collect.request_id \in DOMAIN s.pending_transactions.local
    /\ LET pending == s.pending_transactions.local[collect.request_id]
       IN  /\ pending.stage.kind = "Response"
           /\ HashLock(collect.dest_plain_lock) = pending.stage.dest_hashed_lock
           /\ HashLock(collect.src_plain_lock) = pending.src_hashed_lock

\* C10: an incoming Collect is accepted only if its transaction pends in stage
\* Response(dest_hashed_lock) with hash(dest_plain_lock) = dest_hashed_lock
\* and hash(src_plain_lock) = src_hashed_lock; otherwise it fails and the
\* state is unchanged.
C10_CollectGuard ==
    [][Single(ev', "incoming", "CollectSendFunds") =>
        LET p == ev'.peer
            collect == ev'.ops[1]
        IN  /\ ev'.err = Ok => Collectable(tc[p], collect)
            /\ ~Collectable(tc[p], collect) => (ev'.err # Ok /\ tc' = tc)]_vars

\* A collect with the right source lock for a transaction that pends in stage
\* Request was refused.
C10_Witness ==
    /\ Single(ev, "incoming", "CollectSendFunds")
    /\ ev.err = "NotExpectingCollect"
    /\ ev.ops[1].src_plain_lock = SrcPlainLock
    /\ ev.ops[1].request_id \in DOMAIN tc[ev.peer].pending_transactions.local

\* C11: an incoming RequestSendFunds fails whenever the requests status of the
\* recipient (its local requests status) is Closed, and is not refused on
\* account of the requests status when it is Open.
C11_RequestsStatusGuard ==
    [][Single(ev', "incoming", "RequestSendFunds") =>
        LET s == tc[ev'.peer]
        IN  /\ s.requests_status.local = "Closed" => ev'.err # Ok
            /\ s.requests_status.local = "Open"
                    => ev'.err # "LocalRequestsClosed"]_vars

\* The side whose requests status the operation of the event flips: the remote
\* side for an incoming operation, the local side for an outgoing one.
StatusOfSender(s, e) ==
    IF e.kind = "incoming" THEN s.requests_status.remote
    ELSE s.requests_status.local

\* C12: EnableRequests fails when the requests status of the side that sends
\* it is already Open, DisableRequests fails when it is already Closed, and
\* the failing operation leaves the requests status unchanged.
C12_ToggleTwiceFails ==
    [][\A kind \in {"incoming", "outgoing"} :
        LET p == ev'.peer
        IN  /\ (Single(ev', kind, "EnableRequests")
                    /\ StatusOfSender(tc[p], ev') = "Open")
                => (ev'.err # Ok
                        /\ tc'[p].requests_status = tc[p].requests_status)
            /\ (Single(ev', kind, "DisableRequests")
                    /\ StatusOfSender(tc[p], ev') = "Closed")
                => (ev'.err # Ok
                        /\ tc'[p].requests_status = tc[p].requests_status)]_vars

\* The ceiling that a SetRemoteMaxDebt of the event sets: the local max debt
\* for an incoming operation, the remote max debt for an outgoing one.
CeilingOf(s, e) ==
    IF e.kind = "incoming" THEN s.balance.local_max_debt
    ELSE s.balance.remote_max_debt

\* C14: SetRemoteMaxDebt(x) is accepted exactly when x <= MAX_FUNDER_DEBT:
\* x = MAX_FUNDER_DEBT is accepted and sets the ceiling to x, and
\* x = MAX_FUNDER_DEBT + 1 is refused with the ceiling (and the unit)
\* unchanged.
C14_MaxDebtBoundary ==
    [][\A kind \in {"incoming", "outgoing"} :
        Single(ev', kind, "SetRemoteMaxDebt") =>
            LET p == ev'.peer
                x == ev'.ops[1].proposed_max_debt
            IN  /\ (ev'.err = Ok) <=> (x <= MAX_FUNDER_DEBT)
                /\ ev'.err = Ok => CeilingOf(tc'[p], ev') = x
                /\ ev'.err # Ok => tc' = tc]_vars

\* The largest debt was accepted from the remote side, over a smaller ceiling.
C14_Witness ==
    /\ Single(ev, "incoming", "SetRemoteMaxDebt")
    /\ ev.ops[1].proposed_max_debt = MAX_FUNDER_DEBT
    /\ ev.err = Ok
    /\ Bal(ev.peer).local_max_debt = MAX_FUNDER_DEBT
    /\ steps > 1

\* The event of the step is p processing a list of two operations that
\* reference the same request id, both of a type in `types`.
SameIdBatch(e, types) ==
    /\ e.kind = "incoming"
    /\ Len(e.ops) = 2
    /\ e.ops[1].type \in types
    /\ e.ops[2].type \in types
    /\ e.ops[1].request_id = e.ops[2].request_id

\* The whole list is refused, at the second operation when the first one is
\* fine on its own, and none of its operations is applied.
SecondFails ==
    /\ ev'.err # Ok
    /\ process_operation(tc[ev'.peer], ev'.ops[1]).err = Ok => ev'.index = 2
    /\ ev'.mutations = <<>>
    /\ tc' = tc

\* C13 (as stated): when two operations of one incoming list reference the
\* same request id, the second one fails and the whole list is refused with
\* none of its operations applied.
C13_SameIdSecondFails ==
    [][SameIdBatch(ev', {"RequestSendFunds", "ResponseSendFunds",
                         "CancelSendFunds", "CollectSendFunds"})
            => SecondFails]_vars

\* C13 (amended): when two RequestSendFunds of one incoming list carry the
\* same request id, the second one fails and the whole list is refused with
\* none of its operations applied.
C13_DuplicateRequestFails ==
    [][SameIdBatch(ev', {"RequestSendFunds"}) => SecondFails]_vars

\* The second of two requests with one id was refused as already pending,
\* after the first one was accepted on the clone.
C13_Witness ==
    /\ SameIdBatch(ev, {"RequestSendFunds"})
    /\ ev.err = "RequestAlreadyExists"
    /\ ev.index = 2
    /\ tc[ev.peer].pending_transactions.remote = EmptyMap
    /\ Bal(ev.peer).remote_pending_debt = 0

\* The new_token of the message is the hash of its other fields.
WellFormed(m) ==
    m.new_token = calc_channel_next_token(token_channel_index, InnerOf(m))

\* The message is the one q accepted last.
IsDuplicate(q, m) ==
    direction[q].kind = "Incoming" /\ m.new_token = new_token[q]

\* The message is chained on the latest token of q.
IsExpectedNext(q, m) == m.old_token = new_token[q]

\* The message is the one the pending outgoing message of q was chained on.
IsRetransmitRequest(q, m) ==
    direction[q].kind = "Outgoing" /\ m.new_token = direction[q].inner.old_token

\* The message was refused and nothing of it was processed or kept.
NothingProcessed ==
    /\ ev'.mutations = <<>>
    /\ UNCHANGED <<tc, direction, new_token, compact, liveness>>

\* C15: a received move token that is neither a duplicate of the last accepted
\* one, nor chained on our latest token, nor a request to retransmit our
\* pending outgoing message is answered with a chain inconsistency, and none
\* of its operations is processed.
C15_OtherwiseInconsistency ==
    [][ev'.kind = "receive" =>
        LET q == ev'.peer
            m == ev'.msg.v
        IN  (~IsDuplicate(q, m) /\ ~IsExpectedNext(q, m)
                    /\ ~IsRetransmitRequest(q, m))
                => (ev'.result = "ChainInconsistency" /\ NothingProcessed)]_vars

\* A well-formed message with operations, chained on a token that is not
\* ours, reached a side that holds an outgoing message.
C15_Witness ==
    /\ ev.kind = "receive"
    /\ ev.result = "ChainInconsistency"
    /\ WellFormed(ev.msg.v)
    /\ ev.ops # <<>>
    /\ direction[ev.peer].kind = "Outgoing"
    /\ ev.msg.v.old_token # new_token[ev.peer]

\* C16: when the direction is Outgoing(pending) and the received move token is
\* the one our pending message was chained on, the answer is to retransmit
\* exactly the pending message (its operations, old_token, nonce and
\* new_token); the received operations are not processed and the channel is
\* unchanged.
C16_RetransmitPending ==
    [][ev'.kind = "receive" =>
        LET q == ev'.peer
            m == ev'.msg.v
            pending == direction[q].inner
            r == simulate_receive_move_token(ChannelOf(q), InnerOf(m), m.new_token)
        IN  (WellFormed(m) /\ IsRetransmitRequest(q, m))
                => /\ ev'.result = "RetransmitOutgoing"
                   /\ r.result = "RetransmitOutgoing"
                   /\ r.retransmit = Some([operations |-> pending.operations,
                                           old_token |-> pending.old_token,
                                           rand_nonce |-> pending.rand_nonce,
                                           new_token |-> new_token[q]])
                   /\ NothingProcessed]_vars

\* The peer sent its previous message again, with operations, while our
\* answer to it, with operations, is pending.
C16_Witness ==
    /\ ev.kind = "receive"
    /\ ev.result = "RetransmitOutgoing"
    /\ ev.ops # <<>>
    /\ direction[ev.peer].kind = "Outgoing"
    /\ direction[ev.peer].inner.operations # <<>>
    /\ ev.msg.v.new_token = direction[ev.peer].inner.old_token

\* C17: a received move token whose new_token is not the one computed over its
\* fields is refused without a chain inconsistency being declared, and
\* nothing changes.
C17_BadTokenIsNotInconsistency ==
    [][ev'.kind = "receive" =>
        (~WellFormed(ev'.msg.v)
            => (ev'.result # "ChainInconsistency" /\ NothingProcessed))]_vars

\* The handlers that cancel the requests inside the channel of a friend.
CancelsLocal(kind) == kind \in {"remove_friend", "inconsistency"}

\* A cancel message for the request was appended to the backwards queue of
\* the friend o by the last handler.
CancelAppended(o, request_id) ==
    /\ HasConsistent(funder, o)
    /\ HasConsistent(funder', o)
    /\ LET before == funder.friends[o].channel_status.pending_backwards_ops
           after == funder'.friends[o].channel_status.pending_backwards_ops
       IN  /\ Len(after) = Len(before) + 1
           /\ SubSeq(after, 1, Len(before)) = before
           /\ after[Len(after)] = BackwardsOpCancel(CancelSendFunds(request_id))

FailureEmitted(request_id) ==
    \E i \in DOMAIN outgoing_control' :
        outgoing_control'[i] = TransactionResult(request_id, "Failure")

\* The request was failed for the application and its open transaction
\* was removed.
FailedForUser(request_id) ==
    /\ FailureEmitted(request_id)
    /\ request_id \in DOMAIN funder.open_transactions
    /\ request_id \notin DOMAIN funder'.open_transactions

\* C18: a channel rebuilt by accepting reset terms starts with the balance
\* of the accepted terms, no pending debt on either side, no pending
\* transactions, and empty pending_backwards_ops, pending_requests and
\* pending_user_requests queues.
C18_ResetChannelIsFresh ==
    [][(steps' # steps /\ ev'.kind = "reset_friend_channel") =>
        LET f == ev'.peer
            terms == funder.friends[f].channel_status.opt_remote_reset_terms.v
            cs == funder'.friends[f].channel_status
            unit == cs.token_channel.token_channel
        IN  /\ cs.kind = "Consistent"
            /\ unit.balance.balance = terms.balance_for_reset
            /\ unit.balance.local_pending_debt = 0
            /\ unit.balance.remote_pending_debt = 0
            /\ DOMAIN unit.pending_transactions.local = {}
            /\ DOMAIN unit.pending_transactions.remote = {}
            /\ cs.pending_backwards_ops = <<>>
            /\ cs.pending_requests = <<>>
            /\ cs.pending_user_requests = <<>>]_vars

\* A channel was rebuilt from terms with a non-zero balance.
C18_Witness ==
    /\ ev.kind = "reset_friend_channel"
    /\ HasConsistent(funder, ev.peer)
    /\ UnitOf(funder.friends[ev.peer]).balance.balance # 0

\* C19: when the requests inside the channel of a friend are cancelled,
\* then for every transaction pending locally in that channel exactly one
\* of two things happens: a cancel message with its id is appended to the
\* pending_backwards_ops of the friend it came from, or, when this node is
\* its origin, a failure with its id is reported to the application and its
\* open transaction is removed.
C19_LocalPendingCancelledOnce ==
    [][(steps' # steps /\ CancelsLocal(ev'.kind) /\ HasConsistent(funder, ev'.peer)) =>
        \A request_id \in DOMAIN LocalPending(funder, ev'.peer) :
            LET to_origin == \E o \in Friends : CancelAppended(o, request_id)
            IN  /\ ~funder'.panicked
                /\ to_origin \/ FailedForUser(request_id)
                /\ ~(to_origin /\ FailureEmitted(request_id))]_vars

\* C20: cancelling the queued requests of a friend leaves its
\* pending_requests and pending_user_requests queues empty, every removed
\* request is failed (a cancel message to the friend it came from, or a
\* failure for the application), and no entry leaves the
\* pending_backwards_ops queue of that friend.
C20_QueuedRequestsCancelled ==
    [][(steps' # steps /\ ev'.kind = "friend_offline") =>
        LET f == ev'.peer
            before == funder.friends[f].channel_status
        IN  /\ ~funder'.panicked
            /\ HasConsistent(funder', f)
            /\ funder'.friends[f].channel_status.pending_requests = <<>>
            /\ funder'.friends[f].channel_status.pending_user_requests = <<>>
            /\ \A i \in DOMAIN before.pending_requests :
                  LET request_id == before.pending_requests[i].request_id
                  IN  \/ \E o \in Friends : CancelAppended(o, request_id)
                      \/ FailureEmitted(request_id)
            /\ \A i \in DOMAIN before.pending_user_requests :
                  FailureEmitted(before.pending_user_requests[i].request_id)
            /\ LET kept == funder'.friends[f].channel_status.pending_backwards_ops
               IN  /\ Len(kept) >= Len(before.pending_backwards_ops)
                   /\ SubSeq(kept, 1, Len(before.pending_backwards_ops))
                        = before.pending_backwards_ops]_vars

\* C21: closing one transaction of a payment decreases the count of the
\* payment by exactly one; the record of the payment is deleted only when
\* the count reaches 0 in AfterSuccessAck; in NewTransactions, InProgress
\* and Success the record is kept, and an InProgress payment whose count
\* reaches 0 becomes Canceled(ack_uid).
C21_CloseDecrementsPayment ==
    [][(steps' # steps /\ ev'.kind = "close_transaction") =>
        LET before == funder.payments[PaymentId]
            n == before.num_transactions
            deleted == PaymentId \notin DOMAIN funder'.payments
        IN  /\ ~funder'.panicked
            /\ DOMAIN funder'.open_transactions
                    = DOMAIN funder.open_transactions \ {ev'.ops[1]}
            /\ deleted <=> (before.kind = "AfterSuccessAck" /\ n = 1)
            /\ ~deleted =>
                  LET after == funder'.payments[PaymentId]
                  IN  IF before.kind = "InProgress" /\ n = 1
                      THEN after.kind = "Canceled" /\ after.ack_uid \in AckUids
                      ELSE after.kind = before.kind /\ after.num_transactions = n - 1]_vars

\* The last transaction of an acknowledged payment was closed: the payment
\* is deleted.
C21_Witness ==
    /\ ev.kind = "close_transaction"
    /\ steps = 3
    /\ PaymentId \notin DOMAIN funder.payments

\* The sum of the payments of the commits, as a number.
RECURSIVE SumPayments(_)
SumPayments(commits) ==
    IF commits = <<>> THEN 0 ELSE Head(commits).dest_payment + SumPayments(Tail(commits))

\* The MultiCommit-s that hold a strict subset of the commits of mc.
StrictSubsets(mc) ==
    {[mc EXCEPT !.commits = sub] :
        sub \in {<<>>} \cup {<<mc.commits[i]>> : i \in DOMAIN mc.commits}} \ {mc}

\* An accepted MultiCommit has only commits signed by the seller over the
\* data of the commit, and the sum of its payments fits in u128 and is the
\* total.
AcceptedIsSound(mc) ==
    /\ \A i \in DOMAIN mc.commits :
          mc.commits[i].signature
            = Sign(PkB, commit_data(mc.commits[i], mc.invoice_id, mc.currency,
                                    mc.total_dest_payment))
    /\ SumPayments(mc.commits) <= U128_MAX
    /\ SumPayments(mc.commits) = mc.total_dest_payment

\* C22 as stated: verify_multi_commit accepts only if every signature
\* verifies and the payments sum, without overflow, to total_dest_payment;
\* and a MultiCommit with a strict subset of the commits of an accepted one
\* is rejected.
C22_EverySubsetRejected ==
    (ev.kind = "verify_multi_commit" /\ ev.result = "accepted") =>
        /\ AcceptedIsSound(ev.msg.v)
        /\ \A sub \in StrictSubsets(ev.msg.v) : ~verify_multi_commit(sub, PkB)

\* C22: verify_multi_commit accepts only if every signature verifies and
\* the payments sum, without overflow, to total_dest_payment; a MultiCommit
\* with a strict subset of the commits of an accepted one is rejected when
\* the commits left out carry a payment.
C22_AcceptsOnlySound ==
    (ev.kind = "verify_multi_commit" /\ ev.result = "accepted") =>
        /\ AcceptedIsSound(ev.msg.v)
        /\ \A sub \in StrictSubsets(ev.msg.v) :
              SumPayments(sub.commits) < SumPayments(ev.msg.v.commits)
                  => ~verify_multi_commit(sub, PkB)

\* A MultiCommit of two commits with payments was accepted.
C22_Witness ==
    /\ ev.kind = "verify_multi_commit"
    /\ ev.result = "accepted"
    /\ Len(ev.msg.v.commits) = 2
    /\ \A i \in DOMAIN ev.msg.v.commits : ev.msg.v.commits[i].dest_payment > 0

\* C23: a Receipt assembled from the seller's ResponseSendFunds signature
\* and the matching plain locks passes verify_receipt under the seller's
\* public key, and the same receipt with another total_dest_payment fails.
C23_HonestReceiptVerifies ==
    ev.kind = "verify_receipt" =>
        /\ ev.msg.v \in HonestReceipts => ev.result = "accepted"
        /\ (\E honest \in HonestReceipts :
               /\ ev.msg.v # honest
               /\ ev.msg.v = [honest EXCEPT
                                !.total_dest_payment = ev.msg.v.total_dest_payment])
              => ev.result = "rejected"

\* An honest receipt was verified.
C23_HonestReceiptVerified ==
    /\ ev.kind = "verify_receipt"
    /\ ev.msg.v \in HonestReceipts

\* The states the handlers leave as they process the operations before the
\* i-th one, starting from s.
StateBefore(s, ops, i) == SeqApply(s, SubSeq(ops, 1, i - 1))

\* C26: for every operation the mutual-credit layer processes, alone or in a
\* sequence, applying the returned mutations in order to the state before
\* the operation gives exactly the state the handler left; the same holds
\* for the mutations of the whole sequence and for queued operations.
C26_MutationsReplayState ==
    [][(steps' # steps /\ ev'.err = Ok) =>
        LET p == ev'.peer
        IN  /\ ev'.kind = "incoming" =>
                /\ MutateAll(tc[p], ev'.mutations) = SeqApply(tc[p], ev'.ops)
                /\ \A i \in DOMAIN ev'.ops :
                      LET pre == StateBefore(tc[p], ev'.ops, i)
                          r == process_operation(pre, ev'.ops[i])
                      IN  MutateAll(pre, r.tc_mutations) = r.tc
            /\ ev'.kind = "outgoing" =>
                MutateAll(tc[p], ev'.mutations)
                    = queue_operations_list(tc[p], ev'.ops).tc]_vars

\* A sequence of two operations was processed after earlier ones, with a
\* mutation for each and a changed state.
C26_Witness ==
    /\ ev.kind = "incoming"
    /\ ev.err = Ok
    /\ Len(ev.ops) = 2
    /\ Len(ev.mutations) >= 2
    /\ steps >= 3
    /\ tc[PkA].balance.remote_max_debt > 0

\* No key of the route repeats, but for the first one being the last one.
OnlyEndsRepeat(route) ==
    \A i, j \in DOMAIN route :
        (i < j /\ route[i] = route[j]) => (i = 1 /\ j = Len(route))

\* C27: a route is valid exactly when its length is between 2 and
\* MAX_ROUTE_LEN and either all its keys are distinct, or its first and last
\* keys are equal, its length is at least 3 and no other key repeats.
C27_RouteValidity ==
    ev.kind = "is_route_valid" =>
        LET route == ev.msg.v
            distinct == \A i, j \in DOMAIN route : route[i] = route[j] => i = j
        IN  (ev.result = "accepted") <=>
                /\ Len(route) >= 2
                /\ Len(route) <= MAX_ROUTE_LEN
                /\ \/ distinct
                   \/ /\ route[1] = route[Len(route)]
                      /\ Len(route) >= 3
                      /\ OnlyEndsRepeat(route)

\* The longest cycle was accepted.
C27_Witness ==
    /\ ev.kind = "is_route_valid"
    /\ ev.result = "accepted"
    /\ Len(ev.msg.v) = MAX_ROUTE_LEN
    /\ ev.msg.v[1] = ev.msg.v[MAX_ROUTE_LEN]

\* C28 as stated: the rate with mul = 2^RateBits and add = 0 charges a fee
\* equal to the amount, and fee(x) = floor(x * mul / 2^RateBits) + add.
C28_FullRateChargesAmount ==
    ev.kind = "calc_fee" =>
        LET mul == ev.ops[1]
            add == ev.ops[2]
            x == ev.ops[3]
        IN  (mul = Pow2(RateBits) /\ add = 0) => ev.msg = Some(x)

\* C28: for every rate that the fields of a Rate can hold, the fee of x is
\* floor(x * mul / 2^RateBits) + add when that fits in u128 and none
\* otherwise; mul = 2^RateBits does not fit, and the largest mul with add = 0
\* charges x - ceil(x / 2^RateBits), less than x for every x > 0.
C28_FeeFormula ==
    ev.kind = "calc_fee" =>
        LET mul == ev.ops[1]
            add == ev.ops[2]
            x == ev.ops[3]
            q == CHOOSE q \in 0..(x * mul) :
                    q * Pow2(RateBits) <= x * mul /\ x * mul < (q + 1) * Pow2(RateBits)
            up == CHOOSE c \in 0..x :
                    (c - 1) * Pow2(RateBits) < x /\ x <= c * Pow2(RateBits)
        IN  /\ (mul > U32_MAX \/ add > U32_MAX) => ev.msg = None
            /\ (mul <= U32_MAX /\ add <= U32_MAX) =>
                  /\ q + add <= U128_MAX => ev.msg = Some(q + add)
                  /\ q + add > U128_MAX => ev.msg = None
            /\ (mul = U32_MAX /\ add = 0) => ev.msg = Some(x - up)

\* The largest rate charged less than the amount.
C28_Witness ==
    /\ ev.kind = "calc_fee"
    /\ ev.ops[1] = U32_MAX
    /\ ev.ops[2] = 0
    /\ ev.ops[3] = U128_MAX
    /\ ev.msg.some
    /\ ev.msg.v < ev.ops[3]

\* C29: a request outside the permissions of the connection is dropped: the
\* connection stays open, so that later permitted requests are served, and
\* nothing reaches the node or the user because of it.
C29_ForbiddenRequestDropped ==
    [][(ev'.kind = "compact_user" /\ steps' # steps
          /\ ~check_permission(ev'.ops[1], compact.app_permissions)) =>
            /\ compact'.open
            /\ compact'.app_sender = compact.app_sender
            /\ compact'.user_sender = compact.user_sender]_vars

\* C30: in every reachable state of a mutual-credit unit balance_for_reset
\* returns balance + remote_pending_debt, and the sum fits in i128: the
\* computation does not overflow.
C30_BalanceForResetFits ==
    \A p \in McPeers :
        /\ balance_for_reset(tc[p]).some
        /\ balance_for_reset(tc[p]).v
              = tc[p].balance.balance + tc[p].balance.remote_pending_debt
        /\ tc[p].balance.balance + tc[p].balance.remote_pending_debt <= I128_MAX
        /\ tc[p].balance.balance + tc[p].balance.remote_pending_debt >= I128_MIN

FailureReported(id) ==
    \E i \in DOMAIN outgoing_control :
        outgoing_control[i] = TransactionResult(id, "Failure")

\* The request id of the user is the next one queued for the friend f, and
\* it reserves more than f grants (the requests of f are open).
ExceedsCapacity(f, id) ==
    /\ HasConsistent(funder, f)
    /\ funder.friends[f].channel_status.pending_user_requests # <<>>
    /\ LET request == Head(funder.friends[f].channel_status.pending_user_requests)
           unit == UnitOf(funder.friends[f])
           reserve == credits_to_freeze(create_pending_transaction(request))
       IN  /\ request.request_id = id
           /\ unit.requests_status.remote = "Open"
           /\ reserve.some
           /\ unit.balance.balance - (unit.balance.local_pending_debt + reserve.v)
                  < 0 - unit.balance.local_max_debt

\* The credits the channel with f holds for the request id.
ReservedFor(st, f, id) ==
    IF HasConsistent(st, f) /\ id \in DOMAIN LocalPending(st, f)
    THEN credits_to_freeze(LocalPending(st, f)[id]).v
    ELSE 0

\* The payment has no transaction left and none succeeded.
PaymentFailed(st) ==
    /\ PaymentId \in DOMAIN st.payments
    /\ st.payments[PaymentId].kind \in {"NewTransactions", "Canceled"}
    /\ st.payments[PaymentId].num_transactions = 0

C24_FailureArrives ==
    \A f \in Friends : \A id \in UserUids :
        ExceedsCapacity(f, id)
            ~> (FailureReported(id) \/ ~ExceedsCapacity(f, id)
                    \/ steps = MaxFunderSteps)

\* The request id of the user is the next one queued for the friend f.
QueuedFor(f, id) ==
    /\ HasConsistent(funder, f)
    /\ funder.friends[f].channel_status.pending_user_requests # <<>>
    /\ Head(funder.friends[f].channel_status.pending_user_requests).request_id = id

C24_FailureOnly ==
    [][\A f \in Friends : \A id \in UserUids :
          ExceedsCapacity(f, id) /\ ~ExceedsCapacity(f, id)'
              => FailureReported(id)' \/ QueuedFor(f, id)']_vars

C24_NothingRemains ==
    [][\A id \in UserUids :
          steps' # steps /\ FailureReported(id)'
              => /\ id \notin KnownUids(funder')
                 /\ PaymentFailed(funder')
                 /\ \A f \in Friends :
                      HasConsistent(funder, f) /\ HasConsistent(funder', f)
                          => LET old == UnitOf(funder.friends[f]).balance
                                 new == UnitOf(funder'.friends[f]).balance
                             IN  /\ new.balance = old.balance
                                 /\ new.local_pending_debt
                                        = old.local_pending_debt
                                              - ReservedFor(funder, f, id)
                                 /\ new.remote_pending_debt = old.remote_pending_debt]_vars

C24_CloseCanceled ==
    [][ev'.kind = "request_close_payment" /\ steps' # steps /\ PaymentFailed(funder)
          => \E ack_uid \in AckUids :
                outgoing_control'
                    = <<ResponseClosePayment(PaymentId,
                                             PaymentStatus("Canceled", ack_uid))>>]_vars

\* C24: a request of the user that needs more credits than a hop grants is
\* reported to the user as a Failure; closing the payment then reports
\* Canceled; no channel keeps credits reserved for the request and no
\* balance changed.
C24_CapacityExceeded ==
    /\ C24_FailureArrives
    /\ C24_FailureOnly
    /\ C24_NothingRemains
    /\ C24_CloseCanceled

C24_Witness ==
    /\ ev.kind = "send_pending"
    /\ \E id \in UserUids : FailureReported(id)
    /\ HasConsistent(funder, ev.peer)
    /\ UnitOf(funder.friends[ev.peer]).requests_status.remote = "Open"
    /\ UnitOf(funder.friends[ev.peer]).balance.local_max_debt > 0
    /\ PaymentFailed(funder)

\* The friend accepted the request id of the user and its signed response
\* was handed to the application as the commit of the transaction.
CommitReturned(id) ==
    /\ ev.kind = "receive_response"
    /\ outgoing_control = <<TransactionResult(id, "Success")>>
    /\ id \in DOMAIN funder.open_transactions
    /\ PaymentId \in DOMAIN funder.payments
    /\ funder.payments[PaymentId].num_transactions = 1

\* The friend that answered the request id now collects it.
CollectArrives(id) ==
    /\ ev'.kind = "receive_collect"
    /\ ev'.peer = ev.peer
    /\ ev'.ops = <<CollectSendFunds(id, SrcPlainLock, DestPlainLock)>>

\* C25: once the commit of the single transaction of a payment was returned
\* and the seller collects it, the payment is a Success, and closing the
\* payment reports PaymentStatus Success.
C25_CollectedPaymentSucceeds ==
    [][/\ \A id \in UserUids :
            CommitReturned(id) /\ CollectArrives(id)
                => /\ PaymentId \in DOMAIN funder'.payments
                   /\ funder'.payments[PaymentId].kind = "Success"
       /\ ev'.kind = "request_close_payment" /\ steps' # steps
              /\ PaymentId \in DOMAIN funder.payments
              /\ funder.payments[PaymentId].kind = "Success"
            => \E ack_uid \in PayUids :
                  outgoing_control'
                      = <<ResponseClosePayment(PaymentId,
                                               PaymentStatus("Success", ack_uid))>>]_vars

\* The credits reserved by the pending transactions of the map m.
RECURSIVE SumReserved(_)
SumReserved(m) ==
    IF DOMAIN m = {} THEN 0
    ELSE LET id == CHOOSE x \in DOMAIN m : TRUE
         IN  Reserved(m[id]) + SumReserved(MapRemove(m, id))

\* C31: in every state of a unit, local_pending_debt is the sum of the
\* credits reserved by its pending local transactions and remote_pending_debt
\* the sum of those reserved by its pending remote transactions; both are 0
\* when the respective set is empty.
C31_PendingDebtIsSum ==
    \A p \in McPeers :
        /\ Bal(p).local_pending_debt = SumReserved(tc[p].pending_transactions.local)
        /\ Bal(p).remote_pending_debt = SumReserved(tc[p].pending_transactions.remote)

\* A unit holds a local and a remote pending transaction at once.
C31_Witness ==
    \E p \in McPeers :
        /\ DOMAIN tc[p].pending_transactions.local # {}
        /\ DOMAIN tc[p].pending_transactions.remote # {}
        /\ Bal(p).local_pending_debt > 0
        /\ Bal(p).remote_pending_debt > 0
        /\ ev.err = Ok /\ steps > 0

\* The unit of p seen from the other side: what p calls local the friend
\* calls remote.
MirrorOf(p, q) ==
    /\ Bal(p).local_max_debt = Bal(q).remote_max_debt
    /\ Bal(p).local_pending_debt = Bal(q).remote_pending_debt
    /\ DOMAIN tc[p].pending_transactions.local
            = DOMAIN tc[q].pending_transactions.remote
    /\ tc[p].requests_status.local = tc[q].requests_status.remote

MirrorImages == MirrorOf(PkA, PkB) /\ MirrorOf(PkB, PkA)

\* C32: when no operations are in flight between two friends (every list one
\* side queued was processed by the other), the two units are mirror images:
\* the max debts, the pending debts, the pending request ids and the
\* requests statuses of one side are those of the other side, exchanged.
C32_MirrorImages ==
    [][(MirrorImages /\ ev'.kind = "exchange" /\ ev'.err = Ok) => MirrorImages']_vars

\* Both directions were configured by completed exchanges.
C32_Witness ==
    /\ ev.kind = "exchange" /\ ev.err = Ok
    /\ MirrorImages
    /\ Bal(PkA).local_max_debt > 0
    /\ Bal(PkA).remote_max_debt > 0
    /\ tc[PkA].requests_status.local = "Open"
    /\ tc[PkB].requests_status.local = "Open"

\* C33: between two freshly created channels of the same pair of keys, where
\* each side only receives the message the other side holds outgoing (lost or
\* delivered again, never reordered), no receive is classified as
\* ChainInconsistency.
C33_HonestTokensAccepted ==
    [][ev'.kind = "receive" /\ steps' # steps
            => ev'.result # "ChainInconsistency"]_vars

\* The message p holds outgoing was accepted: the friend took the token of
\* the message.
TokenAccepted(p) ==
    /\ direction[Remote(p)].kind = "Incoming"
    /\ new_token[Remote(p)] = new_token[p]

\* C34: between two honest friends, over a transport that delivers in the
\* end a message that is sent again and again, every move token one side
\* holds outgoing is accepted by the other side: the token is never stuck
\* with both sides waiting.
C34_TokenNeverStuck ==
    \A p \in Peers :
        (direction[p].kind = "Outgoing")
            ~> (TokenAccepted(p) \/ direction[p].kind = "Incoming"
                    \/ steps = MaxSteps)

\* What the three cancelling functions leave when they run, one after the
\* other, for the friend f of the current state.
CancelAllOf(f, ack_uid, order) ==
    cancel_pending_user_requests(
        cancel_pending_requests(
            cancel_local_pending_transactions(Ctx(funder, <<>>), ack_uid, order, f),
            ack_uid, f),
        ack_uid, f)

\* How many times x occurs in the sequence s.
CountIn(s, x) == Cardinality({i \in DOMAIN s : s[i] = x})

\* How many cancel messages for request_id the state st holds for friend o.
CancelsQueued(st, o, request_id) ==
    IF HasConsistent(st, o)
    THEN CountIn(st.friends[o].channel_status.pending_backwards_ops,
                 BackwardsOpCancel(CancelSendFunds(request_id)))
    ELSE 0

\* C35: running cancel_local_pending_transactions, cancel_pending_requests
\* and cancel_pending_user_requests for the same friend queues, for every
\* request id, at most one CancelSendFunds, and only toward the friend the
\* request came from, reports at most one TransactionResult to the
\* application, and never does both for the same request id.
C35_CancelledAtMostOnce ==
    \A f \in Friends : HasConsistent(funder, f) /\ ~funder.panicked =>
        \A ack_uid \in AckUids : \A order \in Orders(LocalPending(funder, f)) :
            LET c == CancelAllOf(f, ack_uid, order)
            IN  \A request_id \in PayUids :
                  LET origin == find_request_origin(funder, request_id)
                      queued == [o \in Friends |->
                                    CancelsQueued(c.state, o, request_id)
                                      - CancelsQueued(funder, o, request_id)]
                      results == CountIn(c.outgoing_control,
                                         TransactionResult(request_id, "Failure"))
                  IN  /\ \A o \in Friends :
                            /\ queued[o] \in {0, 1}
                            /\ queued[o] = 1 => origin = Some(o)
                      /\ results <= 1
                      /\ ~(results = 1 /\ \E o \in Friends : queued[o] = 1)

\* A friend was removed while it held a relayed request and a request of
\* the application: one cancel was queued and one failure was reported.
C35_Witness ==
    /\ ev.kind \in {"remove_friend", "inconsistency", "friend_offline"}
    /\ Len(outgoing_control) = 1
    /\ \E o \in Friends : \E request_id \in PayUids :
          /\ outgoing_control[1].request_id # request_id
          /\ CancelsQueued(funder, o, request_id) = 1

\* The open transactions of the state st that refer to the payment.
OpenFor(st, payment_id) ==
    {request_id \in DOMAIN st.open_transactions :
        st.open_transactions[request_id].payment_id = payment_id}

\* Every open transaction refers to a payment that exists and is not
\* Canceled, and every payment counts its open transactions.
PaymentsCountOpen(st) ==
    /\ \A request_id \in DOMAIN st.open_transactions :
          LET payment_id == st.open_transactions[request_id].payment_id
          IN  /\ payment_id \in DOMAIN st.payments
              /\ st.payments[payment_id].kind # "Canceled"
    /\ \A payment_id \in DOMAIN st.payments :
          st.payments[payment_id].num_transactions
              = Cardinality(OpenFor(st, payment_id))

\* C36: in every reachable funder state each open transaction refers to an
\* existing payment that is not Canceled and each payment counts the open
\* transactions that refer to it, so that remove_transaction, whenever the
\* cancelling of a friend's requests calls it, finds the open transaction
\* and its payment, a count above zero and a payment that is not Canceled.
C36_RemoveTransactionNeverPanics ==
    ~funder.panicked =>
        /\ PaymentsCountOpen(funder)
        /\ \A f \in Friends : HasConsistent(funder, f) =>
              \A ack_uid \in AckUids : \A order \in Orders(LocalPending(funder, f)) :
                  ~CancelAllOf(f, ack_uid, order).state.panicked

\* C37: whenever the processing of a single incoming operation returns an
\* error, the mutual-credit state it was given is exactly unchanged: every
\* check of EnableRequests, DisableRequests, SetRemoteMaxDebt,
\* RequestSendFunds, ResponseSendFunds and FailureSendFunds comes before
\* the first mutation.
C37_ErrorLeavesStateUnchanged ==
    [][(ev'.kind = "process_operation" /\ ev'.err \notin {Ok, Panic}) =>
        /\ tc' = tc
        /\ ev'.mutations = <<>>]_vars

\* A failure with a wrong signature was refused by a unit that holds the
\* pending transaction and its reservation.
C37_Witness ==
    /\ ev.kind = "process_operation"
    /\ ev.err = "InvalidFailureSignature"
    /\ tc[ev.peer].balance.local_pending_debt > 0
    /\ ev.ops[1].request_id \in DOMAIN tc[ev.peer].pending_transactions.local

\* The amount x and its fee fit in the capacity.
Payable(rate, x, capacity) ==
    /\ calc_fee(rate, x).some
    /\ x + calc_fee(rate, x).v <= capacity

\* C38: for every Rate and every capacity c, max_payable(c) is the largest
\* amount x such that x + calc_fee(x) <= c: the returned x satisfies the
\* inequality and x + 1 does not.
C38_MaxPayableIsLargest ==
    ev.kind = "max_payable" =>
        LET rate == RateNew(ev.ops[1], ev.ops[2]).v
            capacity == ev.ops[3]
            x == ev.msg.v
        IN  /\ Payable(rate, x, capacity)
            /\ ~Payable(rate, x + 1, capacity)

\* The positions of the log that name the key pk.
Naming(log, pk) == {i \in DOMAIN log : log[i].arg = pk}

\* The most recent mutation of the log that names pk is SetOnline.
LastWasOnline(log, pk) ==
    /\ Naming(log, pk) # {}
    /\ log[CHOOSE i \in Naming(log, pk) : \A j \in Naming(log, pk) : j <= i].type
          = "SetOnline"

\* C39: after any sequence of SetOnline and SetOffline mutations,
\* is_online(pk) is true exactly when the most recent mutation naming pk was
\* SetOnline; repeating SetOnline, or applying SetOffline to a key that is
\* not online, changes nothing, and a mutation naming another key never
\* changes is_online(pk).
C39_OnlineIsLastMutation ==
    [][ev'.kind = "liveness_mutate" =>
        LET mutation == ev'.ops[1]
            was_online == is_online(liveness, mutation.arg)
        IN  /\ \A pk \in LivenessKeys :
                  is_online(liveness', pk) <=> LastWasOnline(ev'.mutations, pk)
            /\ (mutation.type = "SetOnline" /\ was_online) => liveness' = liveness
            /\ (mutation.type = "SetOffline" /\ ~was_online) => liveness' = liveness
            /\ \A pk \in LivenessKeys \ {mutation.arg} :
                  is_online(liveness', pk) <=> is_online(liveness, pk)]_vars

\* A key was set online twice and another key, never online, was set
\* offline, while a third one went online and offline again.
C39_Witness ==
    /\ ev.kind = "liveness_mutate"
    /\ ev.mutations = <<SetOnline(PkA), SetOnline(PkA), SetOnline(PkB), SetOffline(PkB)>>
    /\ liveness.friends = {PkA}

\* C40: for every request and every response_len with
\* 0 <= response_len <= max_response_len, credits_to_freeze is greater than
\* or equal to credits_on_success for that response_len: the frozen amount is
\* the maximum amount of credits the node can earn.
C40_FreezeCoversSuccess ==
    (ev.kind = "credits_to_freeze" /\ ev.msg.some) =>
        /\ ev.mutations[1].some
        /\ ev.msg.v >= ev.mutations[1].v


====
